---- MODULE Spec2Model ----
(***************************************************************************)
(* Model of gitsmith-core.  This part covers the pull-request aggregator   *)
(* of src/gitsmith-core/src/pull_request.rs: list_pull_requests collects   *)
(* the events a subscription delivers and folds them, one event at a time  *)
(* and in delivery order, into a HashMap<EventId, PullRequest> whose       *)
(* values are then sorted by created_at, newest first.                     *)
(*                                                                         *)
(* Option<T> is modelled as a sequence of length at most one:              *)
(* None = << >>, Some(x) = <<x>>.                                          *)
(***************************************************************************)
EXTENDS Integers, Sequences, FiniteSets, TLC

\* patches.rs: the NIP-34 kinds
KIND_PATCH == 1617
KIND_PULL_REQUEST == 1618
KIND_PULL_REQUEST_UPDATE == 1619

\* Largest number of events one subscription collects before its timer fires.
MaxEvents == 3
\* Largest number of times the same batch is folded again.
MaxRefolds == 1

None == << >>
Some(x) == <<x>>

(***************************************************************************)
(* Event ids.  An EventId is 32 bytes; EventId::parse accepts its hex (or  *)
(* bech32) form and rejects every other string.  The strings below stand   *)
(* for well-formed ids; any other string does not parse.                   *)
(***************************************************************************)
WellFormedIds == {"id1", "id2", "id3", "id4", "id5", "id6", "id7", "id8", "id9", "id10", "pt1", "pt2"}

ParseEventId(s) == IF s \in WellFormedIds THEN Some(s) ELSE None

RepoCoordinate == "30617:alice:repo"

(***************************************************************************)
(* The events the relays may deliver.  An event's id is a function of its  *)
(* content, so distinct events have distinct ids and a re-delivered event  *)
(* is the same record.                                                     *)
(***************************************************************************)
Ev(id, kind, pubkey, content, created_at, tags) ==
    [id |-> id, kind |-> kind, pubkey |-> pubkey, content |-> content,
     created_at |-> created_at, tags |-> tags]

\* a creation with the full tag set and two patch references
EvP1 == Ev("id1", KIND_PULL_REQUEST, "alice", "first", 1,
           << <<"a", RepoCoordinate>>, <<"subject", "First PR">>, <<"c", "root1">>,
              <<"e", "pt1", "patch">>, <<"e", "pt2", "patch">> >>)
\* a creation without any tag, same timestamp as EvP1
EvP2 == Ev("id2", KIND_PULL_REQUEST, "alice", "second", 1, << >>)
\* a later creation by another signer, tags as create_pull_request_event writes them
EvP3 == Ev("id3", KIND_PULL_REQUEST, "bob", "third", 2,
           << <<"a", RepoCoordinate>>, <<"subject", "Third PR">>, <<"c", "root1">>,
              <<"e", "pt1">> >>)
\* updates replying to EvP1: newer, newest, and not newer than the creation
EvU1 == Ev("id4", KIND_PULL_REQUEST_UPDATE, "alice", "fixed", 2,
           << <<"a", RepoCoordinate>>, <<"subject", "First PR v2">>, <<"e", "id1", "", "reply">> >>)
EvU2 == Ev("id5", KIND_PULL_REQUEST_UPDATE, "alice", "later", 3,
           << <<"a", RepoCoordinate>>, <<"e", "id1", "", "reply">> >>)
EvU3 == Ev("id6", KIND_PULL_REQUEST_UPDATE, "alice", "stale", 1,
           << <<"a", RepoCoordinate>>, <<"e", "id1", "", "reply">> >>)
\* an update replying to an id that is no creation (it is the id of EvU1)
EvU4 == Ev("id7", KIND_PULL_REQUEST_UPDATE, "bob", "orphan", 3,
           << <<"a", RepoCoordinate>>, <<"e", "id4", "", "reply">> >>)
\* an update whose reply tag holds a value that is not an event id
EvU5 == Ev("id8", KIND_PULL_REQUEST_UPDATE, "bob", "garbled", 3,
           << <<"a", RepoCoordinate>>, <<"e", "not-an-id", "", "reply">> >>)
\* an update whose `e` tag has no "reply" marker
EvU6 == Ev("id9", KIND_PULL_REQUEST_UPDATE, "alice", "unmarked", 3,
           << <<"a", RepoCoordinate>>, <<"subject", "First PR">>, <<"e", "id1">> >>)
\* an update replying to EvP2
EvU7 == Ev("id10", KIND_PULL_REQUEST_UPDATE, "alice", "second fixed", 2,
           << <<"e", "id2", "", "reply">> >>)
\* a patch event: not of a pull-request kind
EvK1 == Ev("pt1", KIND_PATCH, "alice", "diff", 1, << <<"alt", "git patch: 1/1">> >>)

PrEvents == {EvP1, EvP2, EvP3, EvU1, EvU2, EvU3, EvU4, EvU5, EvU6, EvU7}
Events == PrEvents \cup {EvK1}

(***************************************************************************)
(* Tag helpers of pull_request.rs.  Tags are sequences of strings, indexed *)
(* from 1 here and from 0 in the source.                                   *)
(***************************************************************************)
\* iter().find(..): the least index of a set of matching indices, 0 if none matches
FirstTag(matching) ==
    IF matching = {} THEN 0 ELSE CHOOSE i \in matching : \A j \in matching : i <= j

get_tag_value(event, tag_name) ==
    LET i == FirstTag({n \in 1..Len(event.tags) :
                          Len(event.tags[n]) > 1 /\ event.tags[n][1] = tag_name})
    IN  IF i = 0 THEN None ELSE Some(event.tags[i][2])

IsReplyTag(tag) == Len(tag) > 1 /\ tag[1] = "e" /\ Len(tag) >= 4 /\ tag[4] = "reply"

\* variant: the "reply" marker is not looked at, any `e` tag is taken
find_reply_to_AnyETag(event) ==
    LET i == FirstTag({n \in 1..Len(event.tags) :
                          Len(event.tags[n]) > 1 /\ event.tags[n][1] = "e"})
    IN  IF i = 0 THEN None ELSE ParseEventId(event.tags[i][2])

find_reply_to(event) ==
    LET i == FirstTag({n \in 1..Len(event.tags) : IsReplyTag(event.tags[n])})
    IN  IF i = 0 THEN None ELSE ParseEventId(event.tags[i][2])

IsPatchRefTag(tag) == Len(tag) > 1 /\ tag[1] = "e" /\ Len(tag) >= 3 /\ tag[3] = "patch"

\* variant: every `e` tag is counted, marked "patch" or not
patches_count_AllETags(event) ==
    Cardinality({i \in 1..Len(event.tags) :
                    Len(event.tags[i]) > 1 /\ event.tags[i][1] = "e"})

patches_count(event) == Cardinality({i \in 1..Len(event.tags) : IsPatchRefTag(event.tags[i])})

\* event_to_pull_request always returns Ok(..); the model keeps the Result shape
event_to_pull_request(event) ==
    LET title == get_tag_value(event, "subject")
    IN  [ok |-> TRUE,
         val |-> [id |-> event.id,
                  title |-> IF title = None THEN "Untitled PR" ELSE title[1],
                  description |-> event.content,
                  author |-> event.pubkey,
                  created_at |-> event.created_at,
                  updated_at |-> None,
                  patches_count |-> patches_count(event),
                  root_commit |-> get_tag_value(event, "c"),
                  status |-> IF event.kind = KIND_PULL_REQUEST_UPDATE THEN "Updated" ELSE "Open"]]

(***************************************************************************)
(* One iteration of the loop `for event in events` of list_pull_requests.  *)
(* The map prs is a function from the keys inserted so far to records.     *)
(***************************************************************************)
EmptyMap == [k \in {} |-> None]

\* variant: entry(event.id).or_insert(pr), a present key keeps its value
InsertCreation_KeepExisting(prs, event, pr) ==
    [k \in DOMAIN prs \cup {event.id} |-> IF k \in DOMAIN prs THEN prs[k] ELSE pr]

\* variant: the map is keyed by the signer instead of the event id
InsertCreation_ByAuthor(prs, event, pr) ==
    [k \in DOMAIN prs \cup {event.pubkey} |-> IF k = event.pubkey THEN pr ELSE prs[k]]

\* prs.insert(event.id, pr): a present key has its value replaced
InsertCreation(prs, event, pr) ==
    [k \in DOMAIN prs \cup {event.id} |-> IF k = event.id THEN pr ELSE prs[k]]

\* variant: <= in place of <
UpdateIsNewer_OrEqual(existing, event) == existing.created_at <= event.created_at

\* existing.created_at < event.created_at.as_u64()
UpdateIsNewer(existing, event) == existing.created_at < event.created_at

\* variant: the status of the record is left as it was
ApplyUpdate_KeepsStatus(existing, event, pr) ==
    [existing EXCEPT !.updated_at = Some(event.created_at),
                     !.description = pr.description]

\* variant: the title of the update replaces the title of the record as well
ApplyUpdate_TakesTitle(existing, event, pr) ==
    [existing EXCEPT !.updated_at = Some(event.created_at),
                     !.description = pr.description,
                     !.title = pr.title,
                     !.status = "Updated"]

\* existing.updated_at, existing.description and existing.status are assigned
ApplyUpdate(existing, event, pr) ==
    [existing EXCEPT !.updated_at = Some(event.created_at),
                     !.description = pr.description,
                     !.status = "Updated"]

\* variant: an update that finds no record falls through to the insert branch
FoldEvent_OrphanInserted(prs, event, pr) ==
    LET original_id == find_reply_to(event)
    IN  IF /\ event.kind = KIND_PULL_REQUEST_UPDATE
           /\ original_id # None
           /\ original_id[1] \in DOMAIN prs
        THEN IF UpdateIsNewer(prs[original_id[1]], event)
             THEN [prs EXCEPT ![original_id[1]] = ApplyUpdate(@, event, pr)]
             ELSE prs
        ELSE InsertCreation(prs, event, pr)

FoldEvent(prs, event, pr) ==
    IF event.kind = KIND_PULL_REQUEST_UPDATE
    THEN LET original_id == find_reply_to(event)
         IN  IF original_id # None /\ original_id[1] \in DOMAIN prs
             THEN IF UpdateIsNewer(prs[original_id[1]], event)
                  THEN [prs EXCEPT ![original_id[1]] = ApplyUpdate(@, event, pr)]
                  ELSE prs
             ELSE prs
    ELSE InsertCreation(prs, event, pr)

\* the whole loop over a batch, as a function of the batch
RECURSIVE FoldFrom(_, _)
FoldFrom(prs, batch) ==
    IF batch = << >> THEN prs
    ELSE FoldFrom(FoldEvent(prs, Head(batch), event_to_pull_request(Head(batch)).val), Tail(batch))

FoldMap(batch) == FoldFrom(EmptyMap, batch)

Values(prs) == {prs[k] : k \in DOMAIN prs}

(***************************************************************************)
(* prs.into_values().collect() followed by sort_by_key(Reverse(created_at))*)
(* HashMap iteration order is unspecified (RandomState seeds every map     *)
(* differently), so into_values may yield any ordering of the values; the  *)
(* sort is stable.                                                         *)
(***************************************************************************)
IntoValuesOrders(prs) ==
    LET n == Cardinality(DOMAIN prs)
    IN  {[i \in 1..n |-> prs[ks[i]]] :
            ks \in {f \in [1..n -> DOMAIN prs] : \A i, j \in 1..n : i # j => f[i] # f[j]}}

\* variant: the key is created_at without Reverse
SortsBefore_Ascending(a, b) == a.created_at < b.created_at

\* sort key comparison of Reverse(created_at): a sorts strictly before b
SortsBefore(a, b) == a.created_at > b.created_at

\* stable insertion of x into the sorted sequence s, after every element not sorting after it
RECURSIVE InsertSorted(_, _)
InsertSorted(s, x) ==
    IF s = << >> THEN <<x>>
    ELSE IF SortsBefore(x, Head(s)) THEN <<x>> \o s
    ELSE <<Head(s)>> \o InsertSorted(Tail(s), x)

RECURSIVE sort_by_key(_)
sort_by_key(s) ==
    IF s = << >> THEN << >>
    ELSE InsertSorted(sort_by_key(SubSeq(s, 1, Len(s) - 1)), s[Len(s)])

(***************************************************************************)
(* State of one call of list_pull_requests, and of the calls that follow   *)
(* it on the same batch.                                                   *)
(***************************************************************************)
VARIABLES
    pc,        \* "setup", "collect", "fold", "done" or "error" (the call returned Err)
    events,    \* the Vec<Event> collected from the notification stream
    pos,       \* index in events of the next event the fold loop takes
    prs,       \* the HashMap<EventId, PullRequest>
    result,    \* the Vec<PullRequest> returned
    prior,     \* what the previous call on the same batch returned
    refolds    \* number of calls already completed on this batch

(***************************************************************************)
(* State of one call of create_pull_request_event (patches.rs) and of the  *)
(* caller that makes it.                                                   *)
(***************************************************************************)
VARIABLES
    caller,          \* "library", "send" or "pr_send": who calls the assembler
    call,            \* the arguments: patches, title, description, root_commit, reply_to, now
    apc,             \* "idle", "generated", "patches", "summary", "returned" or "ended"
    patch_event_ids, \* the Vec<EventId> of the patch events built so far
    built,           \* the Vec<Event> the assembler has built so far
    sent,            \* the events the caller has handed to client.send_event
    outcome          \* what the caller reports: "none", "ok", "error"

(***************************************************************************)
(* The vault file of account.rs and the result of the last vault call.     *)
(***************************************************************************)
VARIABLES
    vault_file,      \* None when the file does not exist, Some(AccountStorage) when it
                     \* holds a whole serialised storage, Torn(..) when a write stopped early
    vault_dir,       \* whether the parent directory ~/.config/gitsmith exists
    vault_call,      \* the last call made and its arguments
    vault_ret        \* the Result of the last call

(***************************************************************************)
(* State of one publication: announce_repository (repo.rs), or the send    *)
(* loop and report of the `send` command and of the MCP tool pr_send.      *)
(***************************************************************************)
VARIABLES
    publisher,       \* "none", "announce", "send" or "pr_send"
    relays,          \* the relays the repository is configured with
    pool,            \* the relays added to the client
    unsent,          \* number of events not yet handed to client.send_event
    wire,            \* per event sent, what each relay of the pool did with it
    successes,       \* send: total_successes (a set); pr_send: successes (a Vec)
    failures,        \* send: total_failures (a map); pr_send: failures (a Vec)
    ppc,             \* "setup", "sending" or "ended"
    report           \* what the publisher returns and lists when it has ended

(***************************************************************************)
(* State of one call on a repository: detect_from_git (repo.rs),           *)
(* generate_patches (patches.rs), the `init` command (main.rs) or the MCP  *)
(* tool repo_init (mcp_server.rs).                                         *)
(***************************************************************************)
VARIABLES
    repo_call,       \* the call and its arguments, the repository among them
    repo_built,      \* the announcements handed to build_announcement_event, each
                     \* with the event built from it
    repo_ret,        \* the Result of the call
    rpc              \* "called" or "returned"

foldVars == <<pc, events, pos, prs, result, prior, refolds>>
assemblerVars == <<caller, call, apc, patch_event_ids, built, sent, outcome>>
vaultVars == <<vault_file, vault_dir, vault_call, vault_ret>>
publishVars == <<publisher, relays, pool, unsent, wire, successes, failures, ppc, report>>
repoVars == <<repo_call, repo_built, repo_ret, rpc>>
vars == <<foldVars, assemblerVars, vaultVars, publishVars, repoVars>>

\* no call on a repository is under way
RepoIdle ==
    /\ repo_call = [op |-> "none"]
    /\ repo_built = << >>
    /\ repo_ret = [ok |-> TRUE, val |-> << >>]
    /\ rpc = "returned"

\* no assembler call is under way
AssemblerIdle ==
    /\ caller = "library"
    /\ call = << >>
    /\ apc = "idle"
    /\ patch_event_ids = << >>
    /\ built = << >>
    /\ sent = << >>
    /\ outcome = "none"

\* a fresh home directory: no vault file, no call made
VaultIdle ==
    /\ vault_file = None
    /\ vault_dir = FALSE
    /\ vault_call = [op |-> "none"]
    /\ vault_ret = [ok |-> TRUE, val |-> << >>]

\* no publication is under way
PublishIdle ==
    /\ publisher = "none"
    /\ relays = << >>
    /\ pool = {}
    /\ unsent = 0
    /\ wire = << >>
    /\ successes = << >>
    /\ failures = << >>
    /\ ppc = "ended"
    /\ report = << >>

FoldIdle ==
    /\ pc = "setup"
    /\ events = << >>
    /\ pos = 1
    /\ prs = EmptyMap
    /\ result = << >>
    /\ prior = << >>
    /\ refolds = 0

\* what notifications.recv() may yield besides an event
OtherNotifications == {"message", "shutdown", "recv_error"}

Init ==
    /\ FoldIdle
    /\ AssemblerIdle
    /\ VaultIdle
    /\ PublishIdle
    /\ RepoIdle

\* add_relay(..)?, connect, subscribe(..)?: either `?` may return the error
Setup ==
    /\ pc = "setup"
    /\ \E relays_ok \in BOOLEAN : pc' = IF relays_ok THEN "collect" ELSE "error"
    /\ UNCHANGED <<events, pos, prs, result, prior, refolds>>
    /\ UNCHANGED <<assemblerVars, vaultVars, publishVars, repoVars>>

\* one turn of the select! loop on notifications.recv(); quiet says whether
\* more than 100 ms have passed since last_event_time when the loop tests it.
\* A notification is an event, another notification, or a receive error.
Notification ==
    /\ pc = "collect"
    /\ \E quiet \in BOOLEAN :
         \/ \E event \in Events :
               LET pushed == event.kind = KIND_PULL_REQUEST
                               \/ event.kind = KIND_PULL_REQUEST_UPDATE
                   collected == IF pushed THEN Append(events, event) ELSE events
               IN  /\ pushed => Len(events) < MaxEvents
                   /\ events' = collected
                   /\ pc' = IF collected # << >> /\ quiet THEN "fold" ELSE "collect"
         \/ \E other \in OtherNotifications :
               IF other = "recv_error"
               THEN UNCHANGED <<pc, events>>
               ELSE /\ events' = events
                    /\ pc' = IF events # << >> /\ quiet THEN "fold" ELSE "collect"
    /\ UNCHANGED <<pos, prs, result, prior, refolds>>
    /\ UNCHANGED <<assemblerVars, vaultVars, publishVars, repoVars>>

\* variant: the timer ends a call that collected nothing with an error
Timeout_ErrorWhenEmpty ==
    /\ pc = "collect"
    /\ pc' = IF events = << >> THEN "error" ELSE "fold"
    /\ UNCHANGED <<events, pos, prs, result, prior, refolds>>
    /\ UNCHANGED <<assemblerVars, vaultVars, publishVars, repoVars>>

\* the 1.5 s timer fires
Timeout ==
    /\ pc = "collect"
    /\ pc' = "fold"
    /\ UNCHANGED <<events, pos, prs, result, prior, refolds>>
    /\ UNCHANGED <<assemblerVars, vaultVars, publishVars, repoVars>>

\* one iteration of `for event in events`
FoldStep ==
    /\ pc = "fold"
    /\ pos <= Len(events)
    /\ LET event == events[pos]
           pr == event_to_pull_request(event)
       IN  IF pr.ok
           THEN /\ prs' = FoldEvent(prs, event, pr.val)
                /\ pos' = pos + 1
                /\ pc' = pc
           ELSE /\ pc' = "error"
                /\ UNCHANGED <<prs, pos>>
    /\ UNCHANGED <<events, result, prior, refolds>>
    /\ UNCHANGED <<assemblerVars, vaultVars, publishVars, repoVars>>

\* the loop is over: collect the values, sort them, return Ok(result)
SortAndReturn ==
    /\ pc = "fold"
    /\ pos > Len(events)
    /\ \E order \in IntoValuesOrders(prs) : result' = sort_by_key(order)
    /\ pc' = "done"
    /\ UNCHANGED <<events, pos, prs, prior, refolds>>
    /\ UNCHANGED <<assemblerVars, vaultVars, publishVars, repoVars>>

\* the caller lists again and the relays deliver the same batch in the same order
ListAgain ==
    /\ pc = "done"
    /\ refolds < MaxRefolds
    /\ prior' = result
    /\ refolds' = refolds + 1
    /\ prs' = EmptyMap
    /\ pos' = 1
    /\ result' = << >>
    /\ pc' = "fold"
    /\ UNCHANGED events
    /\ UNCHANGED <<assemblerVars, vaultVars, publishVars, repoVars>>

Next ==
    \/ Setup
    \/ Notification
    \/ Timeout
    \/ FoldStep
    \/ SortAndReturn
    \/ ListAgain

Spec == Init /\ [][Next]_vars

\* The same steps under the scheduling the code has: select! polls the
\* timer on every turn of the loop, so once it has fired its branch is
\* taken; the fold loop and the sort are straight-line code.
LiveSpec ==
    /\ Init
    /\ [][Next]_vars
    /\ WF_vars(Timeout)
    /\ WF_vars(FoldStep)
    /\ WF_vars(SortAndReturn)

TypeOK ==
    /\ pc \in {"setup", "collect", "fold", "done", "error"}
    /\ events \in Seq(PrEvents) /\ Len(events) <= MaxEvents
    /\ pos \in 1..(Len(events) + 1)
    /\ DOMAIN prs \subseteq {e.id : e \in PrEvents}
    /\ refolds \in 0..MaxRefolds

(***************************************************************************)
(* Vocabulary of the properties, stated on events and records directly.    *)
(***************************************************************************)
IsCreation(e) == e.kind = KIND_PULL_REQUEST
IsUpdate(e) == e.kind = KIND_PULL_REQUEST_UPDATE

\* update u carries an `e` tag naming id with "reply" as its fourth element
RepliesTo(u, id) ==
    \E i \in 1..Len(u.tags) :
        /\ Len(u.tags[i]) >= 4
        /\ u.tags[i][1] = "e"
        /\ u.tags[i][2] = id
        /\ u.tags[i][4] = "reply"

Indices == 1..Len(events)
Returned == {result[i] : i \in 1..Len(result)}
Folding == pc = "fold" /\ pos <= Len(events)

\* C1: idempotent fold.  When a call has returned, folding the collected
\* batch followed by the same batch again (S ++ S) gives exactly the records,
\* field by field, that the call built and returned for S.
C1_IdempotentFold ==
    pc = "done" =>
        /\ Values(FoldMap(events \o events)) = Values(prs)
        /\ Values(FoldMap(events \o events)) = Returned

\* a returned batch in which an update was delivered before the creation it
\* replies to and again after it, so the doubled batch applies it in between
C1_Witness ==
    /\ pc = "done"
    /\ \E i, j, k \in Indices :
          /\ i < j /\ j < k
          /\ IsUpdate(events[i]) /\ IsCreation(events[j]) /\ IsUpdate(events[k])
          /\ RepliesTo(events[i], events[j].id)
          /\ events[i].created_at > events[j].created_at
          /\ events[k] = events[i]
    /\ \E r \in Returned : r.status = "Updated"

\* C2: the fold does not depend on where a creation and an update replying
\* to it sit in the batch.  For every creation C and update U of the batch
\* with U replying to C and U newer than C, C's record is returned Updated
\* and carries the description of such an update, whichever came first.
C2_OrderIndependent ==
    pc = "done" =>
        \A i, j \in Indices :
            ( /\ IsCreation(events[i]) /\ IsUpdate(events[j])
              /\ RepliesTo(events[j], events[i].id)
              /\ events[j].created_at > events[i].created_at )
            => \E r \in Returned :
                  /\ r.id = events[i].id
                  /\ r.status = "Updated"
                  /\ \E k \in Indices :
                        /\ IsUpdate(events[k]) /\ RepliesTo(events[k], r.id)
                        /\ events[k].created_at > r.created_at
                        /\ r.description = events[k].content

\* the updates of the batch that reply to record r and are newer than its creation
NewerUpdates(r) ==
    {events[k] : k \in {n \in Indices : /\ IsUpdate(events[n])
                                        /\ RepliesTo(events[n], r.id)
                                        /\ events[n].created_at > r.created_at}}

\* C3: newest update wins.  A returned record that was updated, from a batch
\* holding several updates replying to it, carries the description and the
\* timestamp of the update with the greatest timestamp.
C3_NewestUpdateWins ==
    pc = "done" =>
        \A r \in Returned :
            (r.status = "Updated" /\ Cardinality(NewerUpdates(r)) >= 2)
            => \E u \in NewerUpdates(r) :
                  /\ \A v \in NewerUpdates(r) : v.created_at <= u.created_at
                  /\ r.description = u.content
                  /\ r.updated_at = Some(u.created_at)

\* C4: update rule.  A loop iteration on an update changes the map exactly
\* when the update's reply tag names the key of a record whose created_at is
\* strictly less than the update's timestamp; the change sets that record's
\* description to the update's body, updated_at to its timestamp and status
\* to Updated.  Otherwise (unknown target, or timestamp not greater) the map
\* is unchanged.  A batch of a creation and one newer update replying to it
\* returns one record: Updated, the update's body, updated_at = its timestamp.
C4_UpdateRule ==
    [][ /\ (Folding /\ IsUpdate(events[pos])) =>
            LET u == events[pos]
                hit == {id \in DOMAIN prs : RepliesTo(u, id) /\ u.created_at > prs[id].created_at}
            IN  IF hit = {}
                THEN prs' = prs
                ELSE \E id \in hit :
                        prs' = [prs EXCEPT ![id] = [@ EXCEPT !.description = u.content,
                                                             !.updated_at = Some(u.created_at),
                                                             !.status = "Updated"]]
        /\ (pc' = "done" /\ events' = <<EvP1, EvU1>>) =>
            result' = << [id |-> "id1", title |-> "First PR", description |-> "fixed",
                          author |-> "alice", created_at |-> 1, updated_at |-> Some(2),
                          patches_count |-> 2, root_commit |-> Some("root1"),
                          status |-> "Updated"] >>
      ]_vars

\* the loop has just taken an update that is not newer than the record it
\* replies to, after having applied a newer one to the same record
C4_Witness ==
    /\ pc = "fold"
    /\ pos = 4
    /\ IsCreation(events[1])
    /\ IsUpdate(events[2]) /\ RepliesTo(events[2], events[1].id)
    /\ events[2].created_at > events[1].created_at
    /\ IsUpdate(events[3]) /\ RepliesTo(events[3], events[1].id)
    /\ events[3].created_at <= events[1].created_at
    /\ prs[events[1].id].status = "Updated"
    /\ prs[events[1].id].description = events[2].content
    /\ prs[events[1].id].updated_at = Some(events[2].created_at)

\* C5: re-delivery of a creation has no effect.  A loop iteration on a
\* creation whose id is already a key of the map leaves the map as it was,
\* also when an update has been applied to that record in between.
C5_RedeliveryNoEffect ==
    [][ (Folding /\ IsCreation(events[pos]) /\ events[pos].id \in DOMAIN prs)
            => prs' = prs ]_vars

\* C6: updates that reference an unknown creation are dropped silently.  A
\* loop iteration on an update whose reply target is not a key of the map
\* leaves the map unchanged and does not end the call in an error; every
\* record of the map and of the output carries the id of a creation-kind
\* message of the batch.
C6_UnknownTargetDropped ==
    [][ /\ (Folding /\ IsUpdate(events[pos])
                    /\ ~\E id \in DOMAIN prs : RepliesTo(events[pos], id))
            => (prs' = prs /\ pc' = "fold" /\ pos' = pos + 1)
        /\ \A r \in Values(prs') \cup {result'[i] : i \in 1..Len(result')} :
              \E i \in 1..Len(events') : IsCreation(events'[i]) /\ events'[i].id = r.id
      ]_vars

\* a call has returned a record although its batch also held an update
\* replying to the id of a message that is no creation
C6_Witness ==
    /\ pc = "done"
    /\ result # << >>
    /\ \E i, j \in Indices :
          /\ IsUpdate(events[i]) /\ IsUpdate(events[j])
          /\ RepliesTo(events[i], events[j].id)

RemoveAt(s, i) == SubSeq(s, 1, i - 1) \o SubSeq(s, i + 1, Len(s))
InsertAt(s, i, x) == SubSeq(s, 1, i) \o <<x>> \o SubSeq(s, i + 1, Len(s))
Delivered == {events[i] : i \in Indices}

\* C7: monotonic under creation arrivals.  When a call has returned, adding
\* to its batch, at any position, a creation message the batch did not hold
\* gives a fold in which every record of the call is present with every
\* field unchanged.
C7_MonotonicCreations ==
    pc = "done" =>
        \A c \in PrEvents \ Delivered :
            IsCreation(c) =>
                \A i \in 0..Len(events) :
                    /\ Values(prs) \subseteq Values(FoldMap(InsertAt(events, i, c)))
                    /\ Returned \subseteq Values(FoldMap(InsertAt(events, i, c)))

\* a returned batch with an updated record and an update whose creation has
\* not arrived: adding that creation in front of the update changes the fold
C7_Witness ==
    /\ pc = "done"
    /\ \E r \in Returned : r.status = "Updated"
    /\ \E c \in PrEvents \ Delivered :
          /\ IsCreation(c)
          /\ \E i \in Indices : IsUpdate(events[i]) /\ RepliesTo(events[i], c.id)
                                   /\ events[i].created_at > c.created_at
          /\ Cardinality(Values(FoldMap(<<c>> \o events))) = Cardinality(Values(prs)) + 1

\* C8: the records returned are ordered by created_at descending: of two
\* consecutive records the first is not older than the second.
C8_SortedNewestFirst ==
    pc = "done" =>
        \A i \in 1..(Len(result) - 1) : result[i].created_at >= result[i + 1].created_at

\* a call returned a newer record ahead of an older one that was delivered first
C8_Witness ==
    /\ pc = "done"
    /\ Len(result) >= 2
    /\ result[1].created_at > result[2].created_at
    /\ events[1].id = result[2].id

\* C9: the output order is deterministic.  A second fold of the same batch
\* returns the same sequence of records as the first.
C9_SameOrderEveryFold ==
    (pc = "done" /\ refolds >= 1) => result = prior

\* an update the fold cannot resolve to a message id: its reply-marked `e`
\* tag is absent or holds a value that is not an id
MalformedReply(e) ==
    /\ IsUpdate(e)
    /\ ~\E id \in WellFormedIds : RepliesTo(e, id)

\* a message lacking the tags a pull-request message is built with
MissingTags(e) == get_tag_value(e, "subject") = None

\* C10 as stated: every message with malformed or missing tags is skipped,
\* the other messages being folded as if it were absent, and the fold does
\* not fail.
C10_MalformedOrMissingSkipped ==
    /\ pc = "error" => events = << >>
    /\ pc = "done" =>
          \A i \in Indices :
              (MalformedReply(events[i]) \/ MissingTags(events[i]))
              => Values(FoldMap(RemoveAt(events, i))) = Returned

\* C10 amended: an update with a malformed reply reference is skipped, the
\* other messages being folded as if it were absent; no message makes the
\* fold fail (a call ends in an error only before it has collected anything);
\* a creation with missing tags is not skipped: it is returned with the
\* default title when it has no subject tag.
C10_MalformedUpdateSkipped ==
    /\ pc = "error" => (events = << >> /\ pos = 1)
    /\ pc = "done" =>
          /\ \A i \in Indices :
                MalformedReply(events[i]) => Values(FoldMap(RemoveAt(events, i))) = Returned
          /\ \A i \in Indices :
                IsCreation(events[i]) =>
                    \E r \in Returned :
                        /\ r.id = events[i].id
                        /\ MissingTags(events[i]) => r.title = "Untitled PR"

\* a call returned a record for a creation without tags and an updated
\* record, from a batch that also held an update with an unparsable reply id
C10_Witness ==
    /\ pc = "done"
    /\ \E i \in Indices : IsUpdate(events[i]) /\ RepliesTo(events[i], "not-an-id")
    /\ \E i \in Indices : IsCreation(events[i]) /\ events[i].tags = << >>
    /\ \E r \in Returned : r.title = "Untitled PR"

(***************************************************************************)
(* The patch assembler, create_pull_request_event of patches.rs, and its   *)
(* two callers, handle_send_command and the MCP tool pr_send.              *)
(***************************************************************************)
\* Largest number of patches handed to the assembler.
MaxPatches == 3

\* EventBuilder::sign_with_keys: the id is the hash of the serialised event;
\* the serialisation itself stands for the hash
EventIdOf(kind, pubkey, created_at, content, tags) ==
    ToString(<<0, pubkey, created_at, kind, tags, content>>)

SignWithKeys(pubkey, kind, content, tags, now) ==
    Ev(EventIdOf(kind, pubkey, now, content, tags), kind, pubkey, content, now, tags)

\* Tag::event(id) and Tag::custom(kind, values)
TagEvent(id) == <<"e", id>>
TagCustom(kind, values) == <<kind>> \o values

\* the alt tag of patch i (0-based) of total
AltTag(i, total) ==
    TagCustom("alt", <<"git patch: " \o ToString(i + 1) \o "/" \o ToString(total)>>)

\* variant: every later patch refers to the first patch instead of the previous one
PatchTags_RefFirst(i, total, ids) ==
    <<AltTag(i, total)>> \o (IF i > 0 THEN <<TagEvent(ids[1])>> ELSE << >>)

\* tags of patch i (0-based), ids being the ids of the patches before it
PatchTags(i, total, ids) ==
    <<AltTag(i, total)>> \o (IF i > 0 THEN <<TagEvent(ids[i])>> ELSE << >>)

\* variant: the patches are taken newest first
PatchEvent_Reversed(pubkey, i, patches, ids, now) ==
    SignWithKeys(pubkey, KIND_PATCH, patches[Len(patches) - i],
                 PatchTags(i, Len(patches), ids), now)

PatchEvent(pubkey, i, patches, ids, now) ==
    SignWithKeys(pubkey, KIND_PATCH, patches[i + 1], PatchTags(i, Len(patches), ids), now)

\* variant: reply_to is not looked at
SummaryKind_AlwaysCreation(reply_to) == KIND_PULL_REQUEST

SummaryKind(reply_to) ==
    IF reply_to # None THEN KIND_PULL_REQUEST_UPDATE ELSE KIND_PULL_REQUEST

SummaryTags(repo_coordinate, title, root_commit, ids, reply_to) ==
    << TagCustom("a", <<repo_coordinate>>),
       TagCustom("subject", <<title>>),
       TagCustom("c", <<root_commit>>) >>
    \o (IF ids # << >> THEN <<TagEvent(ids[1])>> ELSE << >>)
    \o (IF reply_to # None THEN <<TagCustom("e", <<reply_to[1]>>)>> ELSE << >>)

SummaryEvent(pubkey, c, ids) ==
    SignWithKeys(pubkey, SummaryKind(c.reply_to), c.description,
                 SummaryTags(c.repo_coordinate, c.title, c.root_commit, ids, c.reply_to), c.now)

\* the arguments a call is made with; patches is what generate_patches
\* returned when the caller is a command
PatchTexts == {"pA", "pB"}
PatchLists == UNION {[1..n -> PatchTexts] : n \in 0..MaxPatches}
Calls ==
    [pubkey : {"alice"}, repo_coordinate : {RepoCoordinate}, title : {"T"},
     description : {"D", ""}, patches : PatchLists, root_commit : {"root1"},
     reply_to : {None, Some("id1")}, now : {1, 2}]

AssemblerInit ==
    /\ caller \in {"library", "send", "pr_send"}
    /\ call \in Calls
    /\ caller = "pr_send" => call.reply_to = None
    /\ apc = IF caller = "library" THEN "patches" ELSE "generated"
    /\ patch_event_ids = << >>
    /\ built = << >>
    /\ sent = << >>
    /\ outcome = "none"
    /\ FoldIdle
    /\ VaultIdle
    /\ PublishIdle
    /\ RepoIdle

\* the caller looks at what generate_patches returned
CallerChecksPatches ==
    /\ apc = "generated"
    /\ IF call.patches = << >>
       THEN /\ apc' = "ended"
            /\ outcome' = IF caller = "send" THEN "ok" ELSE "error"
       ELSE /\ apc' = "patches"
            /\ outcome' = outcome
    /\ UNCHANGED <<caller, call, patch_event_ids, built, sent>>
    /\ UNCHANGED <<foldVars, vaultVars, publishVars, repoVars>>

\* one iteration of `for (i, patch) in patches.iter().enumerate()`
BuildPatch ==
    /\ apc = "patches"
    /\ Len(patch_event_ids) < Len(call.patches)
    /\ LET i == Len(patch_event_ids)
           patch_event == PatchEvent(call.pubkey, i, call.patches, patch_event_ids, call.now)
       IN  /\ patch_event_ids' = Append(patch_event_ids, patch_event.id)
           /\ built' = Append(built, patch_event)
    /\ UNCHANGED <<caller, call, apc, sent, outcome>>
    /\ UNCHANGED <<foldVars, vaultVars, publishVars, repoVars>>

\* the loop is over: build the PR event, push it, return Ok(events)
BuildSummary ==
    /\ apc = "patches"
    /\ Len(patch_event_ids) = Len(call.patches)
    /\ built' = Append(built, SummaryEvent(call.pubkey, call, patch_event_ids))
    /\ apc' = "returned"
    /\ UNCHANGED <<caller, call, patch_event_ids, sent, outcome>>
    /\ UNCHANGED <<foldVars, vaultVars, publishVars, repoVars>>

\* the command sends the events it got and reports: no relay configured, or
\* the events were sent and some relay accepted one, or none did
CallerPublishes ==
    /\ apc = "returned"
    /\ caller # "library"
    /\ \E relays_configured, accepted \in BOOLEAN :
          /\ sent' = IF relays_configured THEN built ELSE << >>
          /\ outcome' = IF caller = "send"
                        THEN IF ~relays_configured \/ accepted THEN "ok" ELSE "error"
                        ELSE IF relays_configured THEN "ok" ELSE "error"
    /\ apc' = "ended"
    /\ UNCHANGED <<caller, call, patch_event_ids, built>>
    /\ UNCHANGED <<foldVars, vaultVars, publishVars, repoVars>>

AssemblerNext ==
    \/ CallerChecksPatches
    \/ BuildPatch
    \/ BuildSummary
    \/ CallerPublishes

AssemblerSpec == AssemblerInit /\ [][AssemblerNext]_vars

(***************************************************************************)
(* Properties of the assembler.                                            *)
(***************************************************************************)
\* the `e` tags of an event, in order, and the value of its tag named name
ETagValues(e) == {e.tags[i][2] : i \in {n \in 1..Len(e.tags) : e.tags[n][1] = "e"}}
HasTag(e, name, value) == \E i \in 1..Len(e.tags) : e.tags[i] = <<name, value>>

\* the text "git patch: i/k", written out for 1 <= i <= k <= 5
AltText ==
    << <<"git patch: 1/1">>,
       <<"git patch: 1/2", "git patch: 2/2">>,
       <<"git patch: 1/3", "git patch: 2/3", "git patch: 3/3">>,
       <<"git patch: 1/4", "git patch: 2/4", "git patch: 3/4", "git patch: 4/4">>,
       <<"git patch: 1/5", "git patch: 2/5", "git patch: 3/5", "git patch: 4/5",
         "git patch: 5/5">> >>

Assembled == apc = "returned" /\ Len(call.patches) >= 1
NPatches == Len(call.patches)

\* C11: patch chain integrity.  In the returned events for k >= 1 patches,
\* the first patch message carries no `e` tag, every later patch message
\* carries an `e` tag naming the id of the patch message just before it (and
\* no other), and the j-th patch message carries alt = "git patch: j/k".
C11_PatchChain ==
    Assembled =>
        \A j \in 1..NPatches :
            /\ j <= Len(built)
            /\ HasTag(built[j], "alt", AltText[NPatches][j])
            /\ ETagValues(built[j]) = IF j = 1 THEN {} ELSE {built[j - 1].id}

\* a call with three patches has returned
C11_Witness ==
    /\ apc = "returned"
    /\ Len(call.patches) = 3
    /\ Len(built) = 4

\* C12: for k >= 1 patches the assembler returns exactly k+1 messages: k
\* messages of kind 1617 whose bodies are the patches in input order, then
\* one summary message, the only one that is not of kind 1617.
C12_PatchesThenSummary ==
    Assembled =>
        /\ Len(built) = NPatches + 1
        /\ \A j \in 1..NPatches :
              built[j].kind = KIND_PATCH /\ built[j].content = call.patches[j]
        /\ built[NPatches + 1].kind \in {KIND_PULL_REQUEST, KIND_PULL_REQUEST_UPDATE}

\* a call with two different patches has returned
C12_Witness ==
    /\ apc = "returned"
    /\ Len(call.patches) >= 2
    /\ call.patches[1] # call.patches[2]
    /\ built[1].content = "pA"

\* C13: the summary message has kind 1618 without reply_to and 1619 with
\* it; its body is the description; it carries a = repo coordinate, subject
\* = title, c = root commit and an `e` tag naming the id of the first patch
\* message, and an `e` tag naming reply_to exactly when reply_to is set.
C13_Summary ==
    Assembled =>
        LET summary == built[Len(built)]
        IN  /\ summary.kind = IF call.reply_to = None THEN 1618 ELSE 1619
            /\ summary.content = call.description
            /\ HasTag(summary, "a", call.repo_coordinate)
            /\ HasTag(summary, "subject", call.title)
            /\ HasTag(summary, "c", call.root_commit)
            /\ ETagValues(summary) =
                  {built[1].id} \cup (IF call.reply_to = None THEN {} ELSE {call.reply_to[1]})

\* a call replying to an earlier pull request has returned
C13_Witness ==
    /\ apc = "returned"
    /\ Len(call.patches) >= 1
    /\ call.reply_to = Some("id1")
    /\ built[Len(built)].kind = KIND_PULL_REQUEST_UPDATE

\* C14: empty input.  A call with an empty patch list builds no message and
\* does not return a list of events; in particular no summary message.
C14_EmptyInputNoMessages ==
    call # << >> /\ call.patches = << >> => (built = << >> /\ apc # "returned")

\* C15: every caller treats an empty patch list as a no-op: when patch
\* generation yields no patches, `send` and `pr_send` publish nothing and
\* report a non-error outcome.
C15_EmptyIsNoOpForCallers ==
    (caller \in {"send", "pr_send"} /\ call.patches = << >> /\ apc = "ended")
        => (sent = << >> /\ outcome = "ok")

\* the events the subscription filter of list_pull_requests lets through
IsPrKind(e) == e.kind \in {KIND_PULL_REQUEST, KIND_PULL_REQUEST_UPDATE}
ReadBack(evs) == SelectSeq(evs, IsPrKind)

\* C16: a pull request assembled from N >= 1 patches and read back through
\* the fold gives one record with patches_count = N and the title and
\* description that were sent.
C16_PatchesCountReadBack ==
    (Assembled /\ call.reply_to = None) =>
        /\ Cardinality(Values(FoldMap(ReadBack(built)))) = 1
        /\ \A r \in Values(FoldMap(ReadBack(built))) :
              /\ r.patches_count = NPatches
              /\ r.title = call.title
              /\ r.description = call.description

(***************************************************************************)
(* Properties of event_to_pull_request, on the events the fold is given.   *)
(***************************************************************************)
\* the positions of the tags of e named name that hold a value
TagsNamed(e, name) == {i \in 1..Len(e.tags) : Len(e.tags[i]) >= 2 /\ e.tags[i][1] = name}
FirstOf(S) == CHOOSE i \in S : \A j \in S : i <= j

\* the record C17 describes for message e
RecordOf(e) ==
    [id |-> e.id,
     title |-> IF TagsNamed(e, "subject") = {} THEN "Untitled PR"
               ELSE e.tags[FirstOf(TagsNamed(e, "subject"))][2],
     description |-> e.content,
     author |-> e.pubkey,
     created_at |-> e.created_at,
     updated_at |-> None,
     patches_count |-> Cardinality({i \in TagsNamed(e, "e") :
                                       Len(e.tags[i]) >= 3 /\ e.tags[i][3] = "patch"}),
     root_commit |-> IF TagsNamed(e, "c") = {} THEN None
                     ELSE Some(e.tags[FirstOf(TagsNamed(e, "c"))][2]),
     status |-> IF e.kind = 1619 THEN "Updated" ELSE "Open"]

\* C17: event_to_pull_request maps every message the fold is given to the
\* record with title = subject tag or "Untitled PR", root_commit = c tag or
\* none, patches_count = number of `e` tags whose third element is "patch",
\* status Updated iff the kind is 1619, description = body, created_at =
\* timestamp, updated_at = none; a creation the loop has just taken is
\* stored in the map as that record.
C17_EventToPullRequest ==
    /\ \A i \in Indices :
          event_to_pull_request(events[i]) = [ok |-> TRUE, val |-> RecordOf(events[i])]
    /\ (pc = "fold" /\ pos > 1 /\ IsCreation(events[pos - 1]))
          => prs[events[pos - 1].id] = RecordOf(events[pos - 1])

\* the loop has just stored a creation that carries `e` tags without the
\* "patch" marker, after one without tags and one with two marked tags
C17_Witness ==
    /\ pc = "fold"
    /\ pos = 4
    /\ events = <<EvP1, EvP2, EvP3>>
    /\ prs["id1"].patches_count = 2
    /\ prs["id2"].title = "Untitled PR"
    /\ prs["id3"].patches_count = 0

(***************************************************************************)
(* The credential vault of account.rs.  A secret key is one of SecretKeys; *)
(* its encodings, its public key and the cipher are modelled by what they  *)
(* let a caller recover: ToBech32/HexEncode are injective and parse back,  *)
(* the public key is a function of the secret key, and a ciphertext opens  *)
(* only under the key and nonce it was sealed with.                        *)
(***************************************************************************)
\* Number of distinct nonces generate_nonce may draw.
MaxNonce == 2

SecretKeys == {"ka", "kb"}
Passwords == {"pw", "pw2"}
Nonces == 1..MaxNonce

SecretToBech32(sk) == "nsec1" \o sk
HexEncode(sk) == "hex" \o sk
PublicKey(sk) == "pk-" \o sk
PublicToBech32(pk) == "npub1" \o pk

\* what a user may type as nsec_or_hex
SecretInputs == {SecretToBech32("ka"), HexEncode("ka"), HexEncode("kb"), "garbage", ""}

\* Keys::parse: the bech32 or the hex encoding of a secret key, else an error
KeysParse(input) ==
    IF \E sk \in SecretKeys : input = SecretToBech32(sk) \/ input = HexEncode(sk)
    THEN Some(CHOOSE sk \in SecretKeys : input = SecretToBech32(sk) \/ input = HexEncode(sk))
    ELSE None

derive_key(password) == <<"sha256", password, "gitsmith-account-encryption">>

\* ChaCha20Poly1305 encrypt and decrypt (decrypt authenticates)
Encrypt(key, nonce, plaintext) == [key |-> key, nonce |-> nonce, plaintext |-> plaintext]

\* variant: the ciphertext opens under any key
Decrypt_Unauthenticated(key, nonce, ciphertext) == Some(ciphertext.plaintext)

Decrypt(key, nonce, ciphertext) ==
    IF ciphertext.key = key /\ ciphertext.nonce = nonce THEN Some(ciphertext.plaintext) ELSE None

Ok(v) == [ok |-> TRUE, val |-> v]
Err(msg) == [ok |-> FALSE, val |-> msg]

\* AccountStorage::new
NewStorage == [accounts |-> << >>, active_npub |-> None]

\* what fs::write leaves when it stops after truncating the file: the first
\* part of the text of storage, which is not a JSON document
Torn(storage) == <<storage, "cut short">>

\* variant: a missing file is an error as well
LoadFails_MissingFile(file) == file = None \/ Len(file) # 1

\* AccountStorage::load returns Err: the file exists and does not parse
LoadFails(file) == file # None /\ Len(file) # 1

\* the storage AccountStorage::load returns when it returns Ok
LoadStorage(file) == IF file = None THEN NewStorage ELSE file[1]

StoredAccount(npub, encrypted, nonce) ==
    [npub |-> npub, encrypted_nsec |-> encrypted, nonce |-> nonce]

\* variant: the account is pushed without looking for an existing entry
Upsert_AlwaysPush(accounts, npub, encrypted, nonce) ==
    Append(accounts, StoredAccount(npub, encrypted, nonce))

\* variant: an existing entry is left as it is
Upsert_KeepExisting(accounts, npub, encrypted, nonce) ==
    IF \E i \in 1..Len(accounts) : accounts[i].npub = npub
    THEN accounts
    ELSE Append(accounts, StoredAccount(npub, encrypted, nonce))

\* variant: a login of a stored identity replaces the nonce and keeps the
\* ciphertext
Upsert_KeepsCiphertext(accounts, npub, encrypted, nonce) ==
    IF \E i \in 1..Len(accounts) : accounts[i].npub = npub
    THEN LET i == CHOOSE k \in 1..Len(accounts) : accounts[k].npub = npub
         IN  [accounts EXCEPT ![i] = [@ EXCEPT !.nonce = nonce]]
    ELSE Append(accounts, StoredAccount(npub, encrypted, nonce))

\* login: update the entry found by npub, or push a new one
Upsert(accounts, npub, encrypted, nonce) ==
    IF \E i \in 1..Len(accounts) : accounts[i].npub = npub
    THEN LET i == CHOOSE k \in 1..Len(accounts) :
                     accounts[k].npub = npub /\ \A j \in 1..(k - 1) : accounts[j].npub # npub
         IN  [accounts EXCEPT ![i] = [@ EXCEPT !.encrypted_nsec = encrypted, !.nonce = nonce]]
    ELSE Append(accounts, StoredAccount(npub, encrypted, nonce))

\* variant: logout also drops the account it logs out
LogoutStorage_DropsAccount(storage) ==
    LET i == CHOOSE k \in 1..Len(storage.accounts) :
                 Some(storage.accounts[k].npub) = storage.active_npub
    IN  [accounts |-> RemoveAt(storage.accounts, i), active_npub |-> None]

\* logout: storage.active_npub.take()
LogoutStorage(storage) == [storage EXCEPT !.active_npub = None]

\* list_accounts: the npub of every account, the active one marked
list_accounts(storage) ==
    [i \in 1..Len(storage.accounts) |->
        IF storage.active_npub = Some(storage.accounts[i].npub)
        THEN storage.accounts[i].npub \o " (active)"
        ELSE storage.accounts[i].npub]

\* how a call of AccountStorage::save may end: the file is written whole;
\* create_dir_all fails; fs::write fails before it truncates the file; or
\* fs::write stops (an error, or the process is killed) after it truncated
SaveOutcomes == {"written", "no_dir", "no_file", "torn"}

\* AccountStorage::save: create_dir_all(parent), then fs::write(path, data)
save(storage, file, dir, how) ==
    CASE how = "no_dir" -> [file |-> file, dir |-> dir, ret |-> Err("Failed to create directory")]
      [] how = "no_file" -> [file |-> file, dir |-> TRUE, ret |-> Err("Failed to write account storage")]
      [] how = "torn" -> [file |-> Torn(storage), dir |-> TRUE, ret |-> Err("Failed to write account storage")]
      [] OTHER -> [file |-> Some(storage), dir |-> TRUE, ret |-> Ok(<< >>)]

\* variant: the storage is loaded before the key is parsed
login_LoadsFirst(file, dir, input, password, drawn, how) ==
    LET keys == KeysParse(input)
    IN  IF LoadFails(file)
        THEN [file |-> file, dir |-> dir, ret |-> Err("Failed to parse account storage")]
        ELSE IF keys = None
        THEN [file |-> file, dir |-> dir, ret |-> Err("InvalidKey")]
        ELSE LET npub == PublicToBech32(PublicKey(keys[1]))
                 encrypted == Encrypt(derive_key(password), drawn, keys[1])
                 storage == LoadStorage(file)
                 stored == [accounts |-> Upsert(storage.accounts, npub, encrypted, drawn),
                            active_npub |-> Some(npub)]
                 saved == save(stored, file, dir, how)
             IN  IF saved.ret.ok THEN [saved EXCEPT !.ret = Ok(npub)] ELSE saved

\* login(nsec_or_hex, password): what it leaves on disk and what it returns;
\* drawn is the nonce generate_nonce returns and how is the way save ends
login(file, dir, input, password, drawn, how) ==
    LET keys == KeysParse(input)
    IN  IF keys = None
        THEN [file |-> file, dir |-> dir, ret |-> Err("InvalidKey")]
        ELSE IF LoadFails(file)
        THEN [file |-> file, dir |-> dir, ret |-> Err("Failed to parse account storage")]
        ELSE LET npub == PublicToBech32(PublicKey(keys[1]))
                 encrypted == Encrypt(derive_key(password), drawn, keys[1])
                 storage == LoadStorage(file)
                 stored == [accounts |-> Upsert(storage.accounts, npub, encrypted, drawn),
                            active_npub |-> Some(npub)]
                 saved == save(stored, file, dir, how)
             IN  IF saved.ret.ok THEN [saved EXCEPT !.ret = Ok(npub)] ELSE saved

\* variant: a logout with no active account saves and reports success
logout_AlwaysSaves(file, dir, how) ==
    IF LoadFails(file)
    THEN [file |-> file, dir |-> dir, ret |-> Err("Failed to parse account storage")]
    ELSE LET storage == LoadStorage(file)
             saved == save(LogoutStorage(storage), file, dir, how)
         IN  IF saved.ret.ok
             THEN [saved EXCEPT !.ret = Ok(IF storage.active_npub = None THEN ""
                                           ELSE storage.active_npub[1])]
             ELSE saved

\* logout(): what it leaves on disk and what it returns
logout(file, dir, how) ==
    IF LoadFails(file)
    THEN [file |-> file, dir |-> dir, ret |-> Err("Failed to parse account storage")]
    ELSE LET storage == LoadStorage(file)
         IN  IF storage.active_npub = None
             THEN [file |-> file, dir |-> dir, ret |-> Err("No active account to logout")]
             ELSE LET saved == save(LogoutStorage(storage), file, dir, how)
                  IN  IF saved.ret.ok THEN [saved EXCEPT !.ret = Ok(storage.active_npub[1])]
                      ELSE saved

\* nostr Keys: a secret key and the public key it determines
Keys(sk) == [secret_key |-> sk, public_key |-> PublicKey(sk)]

\* accounts.iter().find(|a| a.npub == npub): the first such index, 0 if none
FindAccount(accounts, npub) ==
    IF \E i \in 1..Len(accounts) : accounts[i].npub = npub
    THEN CHOOSE k \in 1..Len(accounts) :
             accounts[k].npub = npub /\ \A j \in 1..(k - 1) : accounts[j].npub # npub
    ELSE 0

\* variant: the first stored account is opened, whichever is active
get_active_keys_FirstAccount(file, password) ==
    IF LoadFails(file) THEN Err("Failed to parse account storage")
    ELSE LET storage == LoadStorage(file)
         IN  IF storage.active_npub = None
             THEN Err("No active account. Please login first")
             ELSE LET account == storage.accounts[1]
                      decrypted == Decrypt(derive_key(password), account.nonce,
                                           account.encrypted_nsec)
                  IN  IF decrypted = None
                      THEN Err("Failed to decrypt key. Wrong password?")
                      ELSE Ok(Keys(KeysParse(HexEncode(decrypted[1]))[1]))

\* get_active_keys(password)
get_active_keys(file, password) ==
    IF LoadFails(file) THEN Err("Failed to parse account storage")
    ELSE LET storage == LoadStorage(file)
         IN  IF storage.active_npub = None
             THEN Err("No active account. Please login first")
             ELSE LET found == FindAccount(storage.accounts, storage.active_npub[1])
                  IN  IF found = 0
                      THEN Err("Active account not found in storage")
                      ELSE LET account == storage.accounts[found]
                               decrypted == Decrypt(derive_key(password), account.nonce,
                                                    account.encrypted_nsec)
                           IN  IF decrypted = None
                               THEN Err("Failed to decrypt key. Wrong password?")
                               ELSE LET keys == KeysParse(HexEncode(decrypted[1]))
                                    IN  IF keys = None THEN Err("Failed to parse key")
                                        ELSE Ok(Keys(keys[1]))

\* export_keys(password): the bech32 text of the active secret key
export_keys(file, password) ==
    LET keys == get_active_keys(file, password)
    IN  IF keys.ok THEN Ok(SecretToBech32(keys.val.secret_key)) ELSE keys

VaultInit ==
    /\ VaultIdle
    /\ FoldIdle
    /\ AssemblerIdle
    /\ PublishIdle
    /\ RepoIdle

\* a call of login; create_dir_all cannot fail on a directory that exists
Login ==
    \E input \in SecretInputs, password \in Passwords, drawn \in Nonces, how \in SaveOutcomes :
        /\ how = "no_dir" => ~vault_dir
        /\ vault_call' = [op |-> "login", input |-> input, password |-> password, nonce |-> drawn]
        /\ LET after == login(vault_file, vault_dir, input, password, drawn, how)
           IN  /\ vault_file' = after.file
               /\ vault_dir' = after.dir
               /\ vault_ret' = after.ret
        /\ UNCHANGED <<foldVars, assemblerVars, publishVars, repoVars>>

\* a call of logout
Logout ==
    \E how \in SaveOutcomes :
        /\ how = "no_dir" => ~vault_dir
        /\ vault_call' = [op |-> "logout"]
        /\ LET after == logout(vault_file, vault_dir, how)
           IN  /\ vault_file' = after.file
               /\ vault_dir' = after.dir
               /\ vault_ret' = after.ret
        /\ UNCHANGED <<foldVars, assemblerVars, publishVars, repoVars>>

\* a call of get_active_keys
GetActiveKeys ==
    \E password \in Passwords :
        /\ vault_call' = [op |-> "get_active_keys", password |-> password]
        /\ vault_ret' = get_active_keys(vault_file, password)
        /\ UNCHANGED <<vault_file, vault_dir>>
        /\ UNCHANGED <<foldVars, assemblerVars, publishVars, repoVars>>

\* a call of export_keys
ExportKeys ==
    \E password \in Passwords :
        /\ vault_call' = [op |-> "export_keys", password |-> password]
        /\ vault_ret' = export_keys(vault_file, password)
        /\ UNCHANGED <<vault_file, vault_dir>>
        /\ UNCHANGED <<foldVars, assemblerVars, publishVars, repoVars>>

\* a call of list_accounts
ListAccounts ==
    /\ vault_call' = [op |-> "list"]
    /\ vault_ret' = IF LoadFails(vault_file)
                    THEN Err("Failed to parse account storage")
                    ELSE Ok(list_accounts(LoadStorage(vault_file)))
    /\ UNCHANGED <<vault_file, vault_dir>>
    /\ UNCHANGED <<foldVars, assemblerVars, publishVars, repoVars>>

VaultNext ==
    \/ Login
    \/ Logout
    \/ GetActiveKeys
    \/ ExportKeys
    \/ ListAccounts

VaultSpec == VaultInit /\ [][VaultNext]_vars

(***************************************************************************)
(* Properties of the vault.                                                *)
(***************************************************************************)
Stored == LoadStorage(vault_file).accounts
Active == LoadStorage(vault_file).active_npub
EntriesOf(accounts, npub) == {i \in 1..Len(accounts) : accounts[i].npub = npub}

\* C18: vault invariant.  After any sequence of login and logout calls the
\* active pointer is none or the public id of exactly one stored account,
\* and list_accounts marks at most one entry as active (exactly one when
\* the pointer is set); the list a call has just returned is that list.
C18_OneActive ==
    ~LoadFails(vault_file) =>
    /\ Active = None \/ Cardinality(EntriesOf(Stored, Active[1])) = 1
    /\ LET listed == list_accounts(LoadStorage(vault_file))
           marked == {i \in 1..Len(listed) : listed[i] # Stored[i].npub}
       IN  /\ Len(listed) = Len(Stored)
           /\ Cardinality(marked) = IF Active = None THEN 0 ELSE 1
           /\ vault_call.op = "list" => vault_ret = Ok(listed)
           /\ \A i \in marked : listed[i] = Stored[i].npub \o " (active)"
                                   /\ Active = Some(Stored[i].npub)

\* two accounts are stored, the first of them logged in a second time and
\* active, and list_accounts has just been called
C18_Witness ==
    /\ Len(Stored) = 2
    /\ Active = Some(Stored[1].npub)
    /\ vault_call.op = "list"
    /\ vault_ret.ok
    /\ Len(vault_ret.val) = 2
    /\ vault_ret.val[1] = Stored[1].npub \o " (active)"

\* C19: login upserts.  A successful login with a public id already stored
\* replaces that entry's ciphertext and nonce in place and adds no entry; with
\* a new public id it appends exactly one entry; either way the identity
\* logged in becomes the active one, and no two stored accounts share a
\* public id.
C19_LoginUpserts ==
    [][ (vault_call'.op = "login" /\ vault_ret'.ok) =>
            LET old == LoadStorage(vault_file).accounts
                new == LoadStorage(vault_file').accounts
                sk == KeysParse(vault_call'.input)[1]
                npub == vault_ret'.val
                entry == [npub |-> npub,
                          encrypted_nsec |-> [key |-> derive_key(vault_call'.password),
                                              nonce |-> vault_call'.nonce,
                                              plaintext |-> sk],
                          nonce |-> vault_call'.nonce]
            IN  /\ npub = "npub1pk-" \o sk
                /\ LoadStorage(vault_file').active_npub = Some(npub)
                /\ IF EntriesOf(old, npub) # {}
                   THEN /\ Len(new) = Len(old)
                        /\ \A i \in 1..Len(old) :
                              new[i] = IF old[i].npub = npub THEN entry ELSE old[i]
                   ELSE new = old \o <<entry>>
                /\ \A i, j \in 1..Len(new) : new[i].npub = new[j].npub => i = j
      ]_vars

\* an identity stored first, under one password, has just been logged in
\* again under another password while a second identity is stored after it
C19_Witness ==
    /\ vault_call.op = "login"
    /\ vault_ret.ok
    /\ Len(Stored) = 2
    /\ Stored[1].npub = vault_ret.val
    /\ vault_call.password = "pw2"
    /\ Stored[1].encrypted_nsec.key = derive_key("pw2")
    /\ Stored[2].encrypted_nsec.key = derive_key("pw")

\* C20: a successful logout changes only the active pointer, to none: the
\* stored list of accounts is the same before and after it.
C20_LogoutKeepsAccounts ==
    [][ (vault_call'.op = "logout" /\ vault_ret'.ok) =>
            /\ vault_file' # None
            /\ LoadStorage(vault_file').accounts = LoadStorage(vault_file).accounts
            /\ LoadStorage(vault_file').active_npub = None
            /\ LoadStorage(vault_file).active_npub = Some(vault_ret'.val)
      ]_vars

\* a logout of the second of two stored identities has just succeeded
C20_Witness ==
    /\ vault_call.op = "logout"
    /\ vault_ret.ok
    /\ Len(Stored) = 2
    /\ vault_ret.val = Stored[2].npub
    /\ Active = None

\* C21: logout needs an active identity.  A logout made while the vault has
\* no active identity fails with "No active account" and leaves the vault
\* file as it was; a logout made directly after a successful logout is such
\* a call and always fails.
C21_LogoutNeedsActive ==
    [][ /\ ( /\ vault_call'.op = "logout"
             /\ ~LoadFails(vault_file)
             /\ LoadStorage(vault_file).active_npub = None )
            => ( /\ vault_ret' = Err("No active account to logout")
                 /\ vault_file' = vault_file
                 /\ vault_dir' = vault_dir )
        /\ (vault_call.op = "logout" /\ vault_ret.ok /\ vault_call'.op = "logout")
            => ( /\ vault_ret' = Err("No active account to logout")
                 /\ vault_file' = vault_file )
      ]_vars

\* a logout has just failed on a vault that holds two accounts and no active
\* one, the state a successful logout leaves
C21_Witness ==
    /\ vault_call.op = "logout"
    /\ vault_ret = Err("No active account to logout")
    /\ vault_file # None
    /\ ~LoadFails(vault_file)
    /\ Len(Stored) = 2
    /\ Active = None

\* the password under which the entry of the active account was sealed
SealedUnder(password) ==
    /\ ~LoadFails(vault_file)
    /\ Active # None
    /\ \E i \in EntriesOf(Stored, Active[1]) :
          Stored[i].encrypted_nsec.key = derive_key(password)

\* C22: round trip.  After login(K, P) succeeds, get_active_keys(P) returns
\* the keypair whose secret is K, and export_keys(P) returns a text that
\* parses back to a key whose public id is the one login stored as active;
\* the same holds after other calls as long as the active entry is the one
\* sealed under P.
C22_RoundTrip ==
    [][ /\ ( /\ vault_call.op = "login" /\ vault_ret.ok
             /\ vault_call'.op \in {"get_active_keys", "export_keys"}
             /\ vault_call'.password = vault_call.password )
            => \E K \in SecretKeys :
                  /\ vault_call.input \in {SecretToBech32(K), HexEncode(K)}
                  /\ vault_call'.op = "get_active_keys"
                        => vault_ret' = Ok([secret_key |-> K, public_key |-> "pk-" \o K])
                  /\ vault_call'.op = "export_keys"
                        => /\ vault_ret'.ok
                           /\ KeysParse(vault_ret'.val) = Some(K)
                           /\ "npub1pk-" \o K = vault_ret.val
                           /\ LoadStorage(vault_file).active_npub = Some(vault_ret.val)
        /\ (vault_call'.op = "get_active_keys" /\ SealedUnder(vault_call'.password))
            => /\ vault_ret'.ok
               /\ Active = Some("npub1" \o vault_ret'.val.public_key)
               /\ vault_ret'.val.public_key = "pk-" \o vault_ret'.val.secret_key
        /\ (vault_call'.op = "export_keys" /\ SealedUnder(vault_call'.password))
            => /\ vault_ret'.ok
               /\ \E K \in SecretKeys : /\ vault_ret'.val = "nsec1" \o K
                                        /\ KeysParse(vault_ret'.val) = Some(K)
                                        /\ Active = Some("npub1pk-" \o K)
      ]_vars

\* the key that was typed in hex and stored second has just been exported
\* in bech32 while another account is stored before it
C22_Witness ==
    /\ vault_call.op = "export_keys"
    /\ vault_ret = Ok("nsec1kb")
    /\ ~LoadFails(vault_file)
    /\ Len(Stored) = 2
    /\ Active = Some("npub1pk-kb")
    /\ Stored[2].npub = "npub1pk-kb"

\* C23: wrong password.  After login(K, P), get_active_keys(P') and
\* export_keys(P') with P' # P fail with the decryption error, return no
\* key material and leave the vault file as it was; the same holds after
\* other calls as long as the active entry is not sealed under P'.
C23_WrongPassword ==
    [][ /\ ( /\ vault_call.op = "login" /\ vault_ret.ok
             /\ vault_call'.op \in {"get_active_keys", "export_keys"}
             /\ vault_call'.password # vault_call.password )
            => ( /\ vault_ret' = Err("Failed to decrypt key. Wrong password?")
                 /\ vault_file' = vault_file )
        /\ ( /\ vault_call'.op \in {"get_active_keys", "export_keys"}
             /\ ~LoadFails(vault_file)
             /\ Active # None
             /\ ~SealedUnder(vault_call'.password) )
            => ( /\ vault_ret' = Err("Failed to decrypt key. Wrong password?")
                 /\ vault_file' = vault_file )
      ]_vars

\* export_keys has just been refused the password under which another
\* stored account, but not the active one, is sealed
C23_Witness ==
    /\ vault_call.op = "export_keys"
    /\ vault_call.password = "pw"
    /\ vault_ret = Err("Failed to decrypt key. Wrong password?")
    /\ ~LoadFails(vault_file)
    /\ Len(Stored) = 2
    /\ Active = Some(Stored[2].npub)
    /\ Stored[1].encrypted_nsec.key = derive_key("pw")
    /\ Stored[2].encrypted_nsec.key = derive_key("pw2")

\* the vault file as it is but for the entry of the active account, which
\* is not in it
WithoutActiveEntry ==
    LET i == CHOOSE k \in EntriesOf(Stored, Active[1]) : TRUE
    IN  Some([accounts |-> RemoveAt(Stored, i), active_npub |-> Active])

\* C24: authentication failures are indistinguishable.  When
\* get_active_keys or export_keys has failed on a wrong password, the same
\* call on a vault in which the entry of the active account is not found
\* fails with the same error, so the error does not tell whether the
\* identity exists.
C24_AuthFailuresAlike ==
    ( /\ vault_call.op \in {"get_active_keys", "export_keys"}
      /\ ~LoadFails(vault_file)
      /\ Active # None
      /\ ~SealedUnder(vault_call.password) )
    => /\ ~vault_ret.ok
       /\ get_active_keys(WithoutActiveEntry, vault_call.password).ok = FALSE
       /\ vault_call.op = "get_active_keys"
             => get_active_keys(WithoutActiveEntry, vault_call.password) = vault_ret
       /\ vault_call.op = "export_keys"
             => export_keys(WithoutActiveEntry, vault_call.password) = vault_ret

\* C25: an unparsable secret is refused first.  A login whose secret is not
\* the encoding of a key fails with InvalidKey whatever state the vault
\* file is in, also one that cannot be read, and leaves the file, the
\* accounts and the active pointer as they were; no file and no directory
\* is created when there was none.
C25_InvalidKeyFirst ==
    [][ ( /\ vault_call'.op = "login"
          /\ ~\E sk \in SecretKeys : vault_call'.input \in {"nsec1" \o sk, "hex" \o sk} )
        => ( /\ vault_ret' = Err("InvalidKey")
             /\ vault_file' = vault_file
             /\ vault_dir' = vault_dir )
      ]_vars

\* a login with an unparsable secret has just been refused with InvalidKey
\* while the vault file cannot be loaded
C25_Witness ==
    /\ vault_call.op = "login"
    /\ vault_call.input = "garbage"
    /\ vault_ret = Err("InvalidKey")
    /\ LoadFails(vault_file)

\* C26: a missing vault file is an empty vault.  While the file is missing
\* no call fails for want of it, list_accounts returns the empty list and
\* creates nothing, and the first successful login creates the file, with
\* its parent directory, holding exactly the account logged in.
C26_MissingFileIsEmptyVault ==
    [][ vault_file = None =>
          /\ ~vault_ret'.ok => vault_ret'.val \notin {"Failed to read account storage",
                                                       "Failed to parse account storage"}
          /\ vault_call'.op = "list"
                => (vault_ret' = Ok(<< >>) /\ vault_file' = None /\ vault_dir' = vault_dir)
          /\ (vault_call'.op = "login" /\ vault_ret'.ok)
                => /\ vault_dir'
                   /\ vault_file' # None /\ Len(vault_file') = 1
                   /\ Len(vault_file'[1].accounts) = 1
                   /\ vault_file'[1].accounts[1].npub = vault_ret'.val
                   /\ vault_file'[1].active_npub = Some(vault_ret'.val)
      ]_vars

\* a first login has just created the directory and the file, which holds
\* the one account, sealed under pw2
C26_Witness ==
    /\ vault_call.op = "login"
    /\ vault_ret = Ok("npub1pk-kb")
    /\ vault_dir
    /\ vault_file = Some([accounts |-> <<StoredAccount("npub1pk-kb",
                                            Encrypt(derive_key("pw2"), 1, "kb"), 1)>>,
                          active_npub |-> Some("npub1pk-kb")])

\* C27: no partial writes.  Every step leaves the vault file as it was or
\* holding a whole vault, also a step in which the save fails or is
\* interrupted.
C27_NoPartialWrites ==
    [][ vault_file' = vault_file \/ (vault_file' # None /\ Len(vault_file') = 1) ]_vars

(***************************************************************************)
(* Publishing to relays: announce_repository (repo.rs), the send loop and  *)
(* report of the `send` command (send.rs) and of the MCP tool pr_send      *)
(* (mcp_server.rs).  What a relay does with an event handed to it is not   *)
(* decided by this code: it accepts it, rejects it, or does not answer in  *)
(* time.                                                                   *)
(***************************************************************************)
\* Number of relays a repository may be configured with.
MaxRelays == 2
\* Number of events one publication may hand to send_event.
MaxSends == 2

RelayUrl(i) == "wss://r" \o ToString(i)
RelayLists == {[i \in 1..n |-> RelayUrl(i)] : n \in 0..MaxRelays}
Range(seq) == {seq[i] : i \in 1..Len(seq)}
Verdicts == {"accepted", "rejected", "timeout"}

\* the Output of client.send_event: the relays that took the event, and
\* the others with the reason each gave
Output(fate) ==
    [success |-> {r \in DOMAIN fate : fate[r] = "accepted"},
     failed |-> [r \in {q \in DOMAIN fate : fate[q] # "accepted"} |-> fate[r]]]

\* client.send_event(event).await: the Output, or (errs) an error, which
\* the client may return only when no relay took the event
send_event(fate, errs) ==
    IF errs THEN Err("event not published") ELSE Ok(Output(fate))

\* the members of set in the order of seq
RECURSIVE Keep(_, _)
Keep(seq, set) ==
    IF seq = << >> THEN << >>
    ELSE (IF Head(seq) \in set THEN <<Head(seq)>> ELSE << >>) \o Keep(Tail(seq), set)

\* total_failures.insert(relay, msg) for every (relay, msg) of output.failed
InsertFailures(total_failures, failed) ==
    [r \in DOMAIN total_failures \cup DOMAIN failed |->
        IF r \in DOMAIN failed THEN failed[r] ELSE total_failures[r]]

\* format!("{}: {}", relay, msg) for every (relay, msg) of output.failed
FormatFailures(order, failed) ==
    LET listed == Keep(order, DOMAIN failed)
    IN  [i \in 1..Len(listed) |-> listed[i] \o ": " \o failed[listed[i]]]

Publishers == {"announce", "send", "pr_send"}

\* announce_repository sends one event; send and pr_send send the patch
\* events, of which there is at least one, and the PR event
PublishInit ==
    /\ publisher \in Publishers
    /\ relays \in RelayLists
    /\ unsent \in 1..MaxSends
    /\ publisher = "announce" <=> unsent = 1
    /\ pool = {}
    /\ wire = << >>
    /\ successes = IF publisher = "send" THEN {} ELSE << >>
    /\ failures = << >>
    /\ ppc = "setup"
    /\ report = << >>
    /\ FoldIdle
    /\ AssemblerIdle
    /\ VaultIdle
    /\ RepoIdle

\* announce_repository: prepared says whether Keys::parse, the event build,
\* RelayUrl::parse and add_relay all returned Ok
AnnounceRepository ==
    /\ publisher = "announce"
    /\ ppc = "setup"
    /\ \E prepared \in BOOLEAN, fate \in [Range(relays) -> Verdicts], errs \in BOOLEAN :
          /\ errs => Output(fate).success = {}
          /\ IF ~prepared
             THEN /\ report' = [ok |-> FALSE, successes |-> << >>, failures |-> << >>]
                  /\ UNCHANGED <<pool, wire, unsent>>
             ELSE /\ pool' = Range(relays)
                  /\ wire' = <<fate>>
                  /\ unsent' = 0
                  /\ report' = IF send_event(fate, errs).ok
                               THEN [ok |-> TRUE, successes |-> relays, failures |-> << >>]
                               ELSE [ok |-> FALSE, successes |-> << >>, failures |-> << >>]
    /\ ppc' = "ended"
    /\ UNCHANGED <<publisher, relays, successes, failures>>
    /\ UNCHANGED <<foldVars, assemblerVars, vaultVars, repoVars>>

\* send: no relay configured is a warning and Ok(()); add_relay(..)? may
\* return its error
SendAddRelays ==
    /\ publisher = "send"
    /\ ppc = "setup"
    /\ IF relays = << >>
       THEN /\ report' = [ok |-> TRUE, successes |-> {}, failures |-> << >>]
            /\ ppc' = "ended"
            /\ pool' = pool
       ELSE \E added \in BOOLEAN :
               IF added
               THEN /\ pool' = Range(relays)
                    /\ ppc' = "sending"
                    /\ report' = report
               ELSE /\ report' = [ok |-> FALSE, successes |-> {}, failures |-> << >>]
                    /\ ppc' = "ended"
                    /\ pool' = pool
    /\ UNCHANGED <<publisher, relays, unsent, wire, successes, failures>>
    /\ UNCHANGED <<foldVars, assemblerVars, vaultVars, repoVars>>

\* send: one iteration of `for (i, event) in events.iter().enumerate()`
SendEvent ==
    /\ publisher = "send"
    /\ ppc = "sending"
    /\ unsent > 0
    /\ \E fate \in [pool -> Verdicts], errs \in BOOLEAN :
          /\ errs => Output(fate).success = {}
          /\ wire' = Append(wire, fate)
          /\ LET output == send_event(fate, errs)
             IN  IF output.ok
                 THEN /\ successes' = successes \cup output.val.success
                      /\ failures' = InsertFailures(failures, output.val.failed)
                      /\ unsent' = unsent - 1
                      /\ UNCHANGED <<ppc, report>>
                 ELSE /\ report' = [ok |-> FALSE, successes |-> successes, failures |-> failures]
                      /\ ppc' = "ended"
                      /\ UNCHANGED <<successes, failures, unsent>>
    /\ UNCHANGED <<publisher, relays, pool>>
    /\ UNCHANGED <<foldVars, assemblerVars, vaultVars, repoVars>>

\* send: bail!("Failed to send events to any relay") when success_count == 0
SendReportOk(total_successes, total_failures) == total_successes # {}

\* send: the report after the loop
SendReport ==
    /\ publisher = "send"
    /\ ppc = "sending"
    /\ unsent = 0
    /\ report' = [ok |-> SendReportOk(successes, failures),
                  successes |-> successes, failures |-> failures]
    /\ ppc' = "ended"
    /\ UNCHANGED <<publisher, relays, pool, unsent, wire, successes, failures>>
    /\ UNCHANGED <<foldVars, assemblerVars, vaultVars, repoVars>>

\* pr_send: no relay configured is an error; a relay add_relay fails on is
\* logged and left out of the pool
PrSendAddRelays ==
    /\ publisher = "pr_send"
    /\ ppc = "setup"
    /\ IF relays = << >>
       THEN /\ report' = [ok |-> FALSE, successes |-> << >>, failures |-> << >>]
            /\ ppc' = "ended"
            /\ pool' = pool
       ELSE /\ \E added \in SUBSET Range(relays) : pool' = added
            /\ ppc' = "sending"
            /\ report' = report
    /\ UNCHANGED <<publisher, relays, unsent, wire, successes, failures>>
    /\ UNCHANGED <<foldVars, assemblerVars, vaultVars, repoVars>>

\* pr_send: one iteration of `for event in events`
PrSendEvent ==
    /\ publisher = "pr_send"
    /\ ppc = "sending"
    /\ unsent > 0
    /\ \E fate \in [pool -> Verdicts], errs \in BOOLEAN :
          /\ errs => Output(fate).success = {}
          /\ wire' = Append(wire, fate)
          /\ LET output == send_event(fate, errs)
             IN  IF output.ok
                 THEN /\ successes' = successes \o Keep(relays, output.val.success)
                      /\ failures' = failures \o FormatFailures(relays, output.val.failed)
                 ELSE /\ successes' = successes
                      /\ failures' = Append(failures, "Failed to send event: " \o output.val)
    /\ unsent' = unsent - 1
    /\ UNCHANGED <<publisher, relays, pool, ppc, report>>
    /\ UNCHANGED <<foldVars, assemblerVars, vaultVars, repoVars>>

\* pr_send: CallToolResult::success with "success": true and the two lists
PrSendReport ==
    /\ publisher = "pr_send"
    /\ ppc = "sending"
    /\ unsent = 0
    /\ report' = [ok |-> TRUE, successes |-> successes, failures |-> failures]
    /\ ppc' = "ended"
    /\ UNCHANGED <<publisher, relays, pool, unsent, wire, successes, failures>>
    /\ UNCHANGED <<foldVars, assemblerVars, vaultVars, repoVars>>

PublishNext ==
    \/ AnnounceRepository
    \/ SendAddRelays
    \/ SendEvent
    \/ SendReport
    \/ PrSendAddRelays
    \/ PrSendEvent
    \/ PrSendReport

PublishSpec == PublishInit /\ [][PublishNext]_vars

(***************************************************************************)
(* Properties of publishing.                                               *)
(***************************************************************************)
\* the relays that accepted an event of this publication, and those that
\* rejected one or did not answer in time
AcceptedBy == {r \in pool : \E i \in 1..Len(wire) : wire[i][r] = "accepted"}
RefusedBy == {r \in pool : \E i \in 1..Len(wire) : wire[i][r] # "accepted"}

\* C28: per-endpoint reporting of a repository announcement.  The result
\* announce_repository returns lists as successes exactly the relays that
\* accepted the announcement and as failures, each with its reason, exactly
\* those that rejected it or timed out.
C28_AnnounceReportsEachRelay ==
    (publisher = "announce" /\ ppc = "ended" /\ report.ok) =>
        /\ Range(report.successes) = AcceptedBy
        /\ {f[1] : f \in Range(report.failures)} = RefusedBy
        /\ \A f \in Range(report.failures) : wire[1][f[1]] = f[2]

C30_CollectionTerminates ==
    /\ (pc = "collect") ~> (pc = "done")
    /\ [][ /\ (pc = "collect" /\ pc' # "collect")
                => (pc' = "fold" /\ pos' = 1 /\ prs' = EmptyMap /\ result' = << >>)
           /\ (pc = "collect" /\ events' # events)
                => \E e \in PrEvents : events' = Append(events, e)
           /\ (pc \in {"collect", "fold", "done"}) => pc' # "error"
           /\ pc' = "done" => Returned' = Values(FoldMap(events'))
      ]_vars

\* the timer ended a call that had collected nothing, and the call has
\* returned the empty list
C30_Witness ==
    /\ pc = "done"
    /\ events = << >>
    /\ result = << >>
    /\ refolds = 0

(***************************************************************************)
(* Repositories.  A repository is a directory with a linear history; its   *)
(* commits are numbered from the oldest, 1, to HEAD.  The directory name   *)
(* and an identifier are sequences of characters, each character a string  *)
(* of length one.                                                          *)
(***************************************************************************)
\* Longest directory name drawn, in characters.
MaxName == 2

\* Longest history drawn, in commits.
MaxCommits == 3

KIND_GIT_REPO_ANNOUNCEMENT == 30617

AsciiUpper == {"A", "M", "R"}
AsciiLower == {"a", "d", "e", "m", "n", "o", "p", "r", "u", "y"}
AsciiDigit == {"0", "1"}

\* char::is_ascii_alphanumeric
is_ascii_alphanumeric(c) == c \in AsciiUpper \cup AsciiLower \cup AsciiDigit

\* char::to_ascii_lowercase
to_ascii_lowercase(c) ==
    CASE c = "A" -> "a"
      [] c = "M" -> "m"
      [] c = "R" -> "r"
      [] OTHER -> c

\* variant: the characters kept are not lowercased
sanitize_identifier_KeepsCase(s) ==
    [i \in 1..Len(s) |->
        IF is_ascii_alphanumeric(s[i]) \/ s[i] = "-" \/ s[i] = "_" THEN s[i] ELSE "-"]

\* s.chars().map(..).collect()
sanitize_identifier(s) ==
    [i \in 1..Len(s) |->
        IF is_ascii_alphanumeric(s[i]) \/ s[i] = "-" \/ s[i] = "_"
        THEN to_ascii_lowercase(s[i])
        ELSE "-"]

\* the characters a directory name is drawn from; a file name holds no "/"
DirChars == {"A", "a", "0", "-", "_", " ", ".", "é"}
MyRepo == <<"M", "y", " ", "R", "e", "p", "o", "!", "!">>
DirNames == UNION {[1..n -> DirChars] : n \in 1..MaxName} \cup {MyRepo}

\* unwrap_or("unnamed")
Unnamed == <<"u", "n", "n", "a", "m", "e", "d">>

CommitId(i) == "c" \o ToString(i)

\* a revwalk from HEAD over a history of m commits, in the default order
\* and under Sort::TIME: a commit comes before its parent
Revwalk(m) == [i \in 1..m |-> CommitId(m + 1 - i)]

\* Vec::reverse, Sort::REVERSE
Reverse(seq) == [i \in 1..Len(seq) |-> seq[Len(seq) + 1 - i]]

\* a directory that is a git repository: dir is None when the path has no
\* final component, origin is the url of the remote "origin" if there is one
Repositories ==
    [dir : {None} \cup {Some(n) : n \in DirNames},
     commits : 0..MaxCommits,
     origin : {None, Some("https://host/repo.git")}]

\* get_root_commit: `root` is assigned every oid the walk yields, so the
\* last one yielded stays
get_root_commit(repo) ==
    IF repo.commits = 0
    THEN Err("reference 'refs/heads/master' not found")
    ELSE LET walk == Reverse(Revwalk(repo.commits))
         IN  IF walk # << >>
             THEN Ok(walk[Len(walk)])
             ELSE Err("No commits found in repository")

\* detect_from_git; path is None when no repository can be opened there
detect_from_git(path) ==
    IF path = None
    THEN Err("Failed to open git repository")
    ELSE LET repo == path[1]
             name == IF repo.dir = None THEN Unnamed ELSE repo.dir[1]
             root_commit == get_root_commit(repo)
         IN  IF ~root_commit.ok
             THEN root_commit
             ELSE Ok([identifier |-> sanitize_identifier(name),
                      name |-> name,
                      description |-> "",
                      clone_urls |-> IF repo.origin # None THEN <<repo.origin[1]>> ELSE << >>,
                      relays |-> << >>,
                      web |-> << >>,
                      root_commit |-> root_commit.val,
                      maintainers |-> << >>])

(***************************************************************************)
(* generate_patches.  since_commit is given split at every "~".            *)
(***************************************************************************)
\* str::parse::<usize>
ParseUsize(s) ==
    IF \E n \in 0..(MaxCommits + 1) : s = ToString(n)
    THEN Some(CHOOSE n \in 0..(MaxCommits + 1) : s = ToString(n))
    ELSE None

\* variant: the walk stops at the first commit instead of failing
RECURSIVE WalkBack_StopsAtRoot(_, _)
WalkBack_StopsAtRoot(current, n) ==
    IF n = 0 \/ current = 1 THEN Some(current)
    ELSE WalkBack_StopsAtRoot(current - 1, n - 1)

\* `for _ in 0..n`: current = current.parent(0), or None when a commit
\* without parent is reached first
RECURSIVE WalkBack(_, _)
WalkBack(current, n) ==
    IF n = 0 THEN Some(current)
    ELSE IF current > 1 THEN WalkBack(current - 1, n - 1)
    ELSE None

\* `for oid in revwalk { if oid == since_oid { break; } commits.push(oid) }`
RECURSIVE TakeUntil(_, _)
TakeUntil(walk, since_oid) ==
    IF walk = << >> \/ Head(walk) = since_oid THEN << >>
    ELSE <<Head(walk)>> \o TakeUntil(Tail(walk), since_oid)

\* `for (i, oid) in revwalk.enumerate() { if i >= n { break; } .. }`
TakeFirst(walk, n) == SubSeq(walk, 1, IF n < Len(walk) THEN n ELSE Len(walk))

\* generate_patch_for_commit: the patch opens with the commit id
PatchOf(oid) == "From " \o oid \o " Mon Sep 17 00:00:00 2001"

\* the since_oid of generate_patches
SinceOid(commits, parts) ==
    IF Len(parts) > 1
    THEN IF Len(parts) # 2 \/ parts[1] # "HEAD"
         THEN Err("Invalid commit reference")
         ELSE IF ParseUsize(parts[2]) = None
         THEN Err("Invalid number in HEAD~" \o parts[2])
         ELSE IF WalkBack(commits, ParseUsize(parts[2])[1]) = None
         THEN Err("Not enough commits for HEAD~" \o parts[2])
         ELSE Ok(CommitId(WalkBack(commits, ParseUsize(parts[2])[1])[1]))
    ELSE IF \E i \in 1..commits : parts[1] = CommitId(i)
         THEN Ok(parts[1])
         ELSE Err("revspec not found")

generate_patches(path, since_commit, count) ==
    IF path = None
    THEN Err("could not find repository")
    ELSE IF path[1].commits = 0
    THEN Err("reference 'refs/heads/master' not found")
    ELSE LET m == path[1].commits
             head == CommitId(m)
             since_oid == SinceOid(m, since_commit[1])
             commits == IF since_commit # None THEN TakeUntil(Revwalk(m), since_oid.val)
                        ELSE IF count # None THEN TakeFirst(Revwalk(m), count[1])
                        ELSE <<head>>
             ordered == Reverse(commits)
         IN  IF since_commit # None /\ ~since_oid.ok
             THEN since_oid
             ELSE Ok([i \in 1..Len(ordered) |-> PatchOf(ordered[i])])

(***************************************************************************)
(* The announcement event.                                                 *)
(***************************************************************************)
\* PublicKey::from_bech32
PublicFromBech32(s) ==
    IF \E sk \in SecretKeys : s = PublicToBech32(PublicKey(sk))
    THEN Some(CHOOSE pk \in {PublicKey(sk) : sk \in SecretKeys} : s = PublicToBech32(pk))
    ELSE None

\* `for maintainer in &announcement.maintainers`
RECURSIVE MaintainerTags(_)
MaintainerTags(maintainers) ==
    IF maintainers = << >> THEN << >>
    ELSE (IF PublicFromBech32(Head(maintainers)) # None
          THEN <<<<"p", PublicFromBech32(Head(maintainers))[1]>>>>
          ELSE << >>) \o MaintainerTags(Tail(maintainers))

build_announcement_event(announcement, pubkey, now) ==
    LET tags ==
            <<<<"d", announcement.identifier>>, TagCustom("name", <<announcement.name>>)>>
            \o (IF announcement.description # ""
                THEN <<TagCustom("description", <<announcement.description>>)>>
                ELSE << >>)
            \o <<TagCustom("r", <<announcement.root_commit>>)>>
            \o (IF announcement.clone_urls # << >>
                THEN <<TagCustom("clone", announcement.clone_urls)>>
                ELSE << >>)
            \o [i \in 1..Len(announcement.relays) |->
                    TagCustom("relays", <<announcement.relays[i]>>)]
            \o (IF announcement.web # << >>
                THEN <<TagCustom("web", announcement.web)>>
                ELSE << >>)
            \o MaintainerTags(announcement.maintainers)
    IN  SignWithKeys(pubkey, KIND_GIT_REPO_ANNOUNCEMENT, "", tags, now)

\* announce_repository: the keys are parsed and the event is built; delivered
\* says whether RelayUrl::parse, add_relay, ensure_relay_connected and
\* send_event all returned Ok.  built is what build_announcement_event was
\* handed and what it returned.
announce_repository(announcement, private_key_hex, now, delivered) ==
    IF KeysParse(private_key_hex) = None
    THEN [built |-> << >>, ret |-> Err("Invalid secret key")]
    ELSE LET pubkey == PublicKey(KeysParse(private_key_hex)[1])
             event == build_announcement_event(announcement, pubkey, now)
         IN  [built |-> <<[announcement |-> announcement, event |-> event]>>,
              ret |-> IF delivered
                      THEN Ok([event_id |-> event.id,
                               nostr_url |-> <<PublicToBech32(pubkey),
                                               IF announcement.relays # << >>
                                               THEN Some(announcement.relays[1]) ELSE None,
                                               announcement.identifier>>,
                               successes |-> announcement.relays,
                               failures |-> << >>])
                      ELSE Err("Failed to connect to relays")]

\* the identifiers, maintainers and keys a user may give
Identifiers ==
    {<<"m", "y", "-", "r", "e", "p", "o", "_", "1">>,
     <<"M", "y", "R", "e", "p", "o">>,
     <<"m", "y", ".", "r", "e", "p", "o">>,
     <<"m", "y", " ", "r", "e", "p", "o">>,
     <<"a", "/", "r", "e", "p", "o">>}
MaintainerLists ==
    {<< >>,
     <<PublicToBech32(PublicKey("ka")), PublicToBech32(PublicKey("kb"))>>,
     <<PublicToBech32(PublicKey("ka")), PublicKey("kb")>>}
PrivateKeys == {HexEncode("ka"), SecretToBech32("ka"), "garbage"}
InitRepositories == {None, Some([dir |-> Some(<<"a">>), commits |-> 0, origin |-> None]),
                     Some([dir |-> Some(<<"A">>), commits |-> 2,
                           origin |-> Some("https://host/repo.git")])}

\* private_key.starts_with("nsec")
StartsWithNsec(private_key) ==
    \E sk \in SecretKeys : private_key = SecretToBech32(sk)

\* the `init` command
init(c, delivered) ==
    IF c.relays = << >>
    THEN [built |-> << >>, ret |-> Err("At least one relay is required (--relay)")]
    ELSE IF \E i \in 1..Len(c.identifier) : c.identifier[i] = " " \/ c.identifier[i] = "/"
    THEN [built |-> << >>, ret |-> Err("Identifier must not contain spaces or slashes")]
    ELSE LET fresh == [identifier |-> c.identifier, name |-> c.name,
                       description |-> c.description, clone_urls |-> << >>,
                       relays |-> << >>, web |-> << >>, root_commit |-> "",
                       maintainers |-> << >>]
             detected == IF detect_from_git(c.repo_path).ok
                         THEN detect_from_git(c.repo_path).val
                         ELSE fresh
             announcement ==
                 [identifier |-> c.identifier,
                  name |-> c.name,
                  description |-> c.description,
                  clone_urls |-> IF c.clone_urls # << >> THEN c.clone_urls
                                 ELSE detected.clone_urls,
                  relays |-> c.relays,
                  web |-> c.web,
                  root_commit |-> IF c.root_commit # None THEN c.root_commit[1]
                                  ELSE detected.root_commit,
                  maintainers |-> c.maintainers]
         IN  IF announcement.root_commit = ""
             THEN [built |-> << >>,
                   ret |-> Err("Root commit could not be detected. Please specify --root-commit")]
             ELSE IF StartsWithNsec(c.private_key)
             THEN [built |-> << >>, ret |-> Err("nsec bech32 format not yet supported")]
             ELSE announce_repository(announcement, c.private_key, c.now, delivered)

\* the MCP tool repo_init
repo_init(c, delivered) ==
    IF KeysParse(c.private_key) = None
    THEN [built |-> << >>, ret |-> Err("Invalid private key")]
    ELSE IF c.root_commit = None /\ ~detect_from_git(c.repo_path).ok
    THEN [built |-> << >>, ret |-> Err("Failed to detect root commit")]
    ELSE LET announcement ==
                 [identifier |-> c.identifier,
                  name |-> c.name,
                  description |-> c.description,
                  clone_urls |-> c.clone_urls,
                  relays |-> c.relays,
                  web |-> << >>,
                  root_commit |-> IF c.root_commit # None THEN c.root_commit[1]
                                  ELSE detect_from_git(c.repo_path).val.root_commit,
                  maintainers |-> IF c.maintainers # None THEN c.maintainers[1] ELSE << >>]
         IN  announce_repository(announcement, HexEncode(KeysParse(c.private_key)[1]),
                                 c.now, delivered)

\* since_commit, split at "~"
Sinces ==
    {Some(<<"HEAD", ToString(n)>>) : n \in 0..(MaxCommits + 1)}
    \cup {None, Some(<<"main", "1">>), Some(<<"HEAD", "x">>), Some(<<"HEAD", "1", "1">>),
          Some(<<"c1">>), Some(<<"zz">>)}

RepoCalls ==
    [op : {"detect_from_git"}, repo_path : {None} \cup {Some(r) : r \in Repositories}]
    \cup [op : {"generate_patches"},
          repo_path : {None} \cup {Some([dir |-> None, commits |-> m, origin |-> None]) :
                                       m \in 0..MaxCommits},
          since_commit : Sinces,
          count : {None, Some(0), Some(2)}]
    \cup [op : {"init"}, identifier : Identifiers, name : {<<"N">>},
          description : {"", "D"},
          clone_urls : {<< >>, <<"https://a/r.git", "https://b/r.git">>},
          relays : {<< >>, <<RelayUrl(1), RelayUrl(2)>>},
          web : {<< >>, <<"https://a/r", "https://b/r">>},
          private_key : PrivateKeys,
          root_commit : {None, Some("c0")},
          maintainers : MaintainerLists,
          repo_path : InitRepositories,
          now : {1}]
    \cup [op : {"repo_init"}, identifier : Identifiers, name : {<<"N">>},
          description : {"", "D"},
          clone_urls : {<< >>, <<"https://a/r.git", "https://b/r.git">>},
          relays : {<< >>, <<RelayUrl(1), RelayUrl(2)>>},
          private_key : PrivateKeys,
          root_commit : {None, Some("c0")},
          maintainers : {None} \cup {Some(l) : l \in MaintainerLists},
          repo_path : InitRepositories,
          now : {1}]

RepoStart ==
    /\ repo_call \in RepoCalls
    /\ repo_built = << >>
    /\ repo_ret = [ok |-> TRUE, val |-> << >>]
    /\ rpc = "called"
    /\ FoldIdle
    /\ AssemblerIdle
    /\ VaultIdle
    /\ PublishIdle

DetectFromGit ==
    /\ rpc = "called"
    /\ repo_call.op = "detect_from_git"
    /\ repo_ret' = detect_from_git(repo_call.repo_path)
    /\ rpc' = "returned"
    /\ UNCHANGED <<repo_call, repo_built>>
    /\ UNCHANGED <<foldVars, assemblerVars, vaultVars, publishVars>>

GeneratePatches ==
    /\ rpc = "called"
    /\ repo_call.op = "generate_patches"
    /\ repo_ret' = generate_patches(repo_call.repo_path, repo_call.since_commit, repo_call.count)
    /\ rpc' = "returned"
    /\ UNCHANGED <<repo_call, repo_built>>
    /\ UNCHANGED <<foldVars, assemblerVars, vaultVars, publishVars>>

InitCommand ==
    /\ rpc = "called"
    /\ repo_call.op = "init"
    /\ \E delivered \in BOOLEAN :
          /\ repo_built' = init(repo_call, delivered).built
          /\ repo_ret' = init(repo_call, delivered).ret
    /\ rpc' = "returned"
    /\ UNCHANGED repo_call
    /\ UNCHANGED <<foldVars, assemblerVars, vaultVars, publishVars>>

RepoInitTool ==
    /\ rpc = "called"
    /\ repo_call.op = "repo_init"
    /\ \E delivered \in BOOLEAN :
          /\ repo_built' = repo_init(repo_call, delivered).built
          /\ repo_ret' = repo_init(repo_call, delivered).ret
    /\ rpc' = "returned"
    /\ UNCHANGED repo_call
    /\ UNCHANGED <<foldVars, assemblerVars, vaultVars, publishVars>>

RepoNext == DetectFromGit \/ GeneratePatches \/ InitCommand \/ RepoInitTool

RepoSpec == RepoStart /\ [][RepoNext]_vars

(***************************************************************************)
(* Properties of the repository calls.                                     *)
(***************************************************************************)
Returns(op) == rpc = "returned" /\ repo_call.op = op

\* the characters [a-z0-9_-]
IdentifierChars == AsciiLower \cup AsciiDigit \cup {"-", "_"}
    \cup {"b", "c", "f", "g", "h", "i", "j", "k", "l", "q", "s", "t", "v", "w", "x", "z",
          "2", "3", "4", "5", "6", "7", "8", "9"}

\* the `p` tags of a tag list
SignerTags(tags) == {i \in 1..Len(tags) : tags[i][1] = "p"}

\* the tags the announcement is to carry before its signer references
LeadingTags(a) ==
    <<<<"d", a.identifier>>, <<"name", a.name>>>>
    \o (IF a.description # "" THEN <<<<"description", a.description>>>> ELSE << >>)
    \o <<<<"r", a.root_commit>>>>
    \o (IF a.clone_urls # << >> THEN <<<<"clone">> \o a.clone_urls>> ELSE << >>)
    \o [i \in 1..Len(a.relays) |-> <<"relays", a.relays[i]>>]
    \o (IF a.web # << >> THEN <<<<"web">> \o a.web>> ELSE << >>)

\* C31: build_announcement_event emits a kind-30617 message whose tags are,
\* in this order, the identifier tag, the name tag, a description tag only
\* when the description is not empty, the `r` tag, one `clone` tag with all
\* clone URLs, one `relays` tag per relay, one `web` tag with all web URLs,
\* and one signer-reference tag per maintainer: there are as many `p` tags
\* as the announcement has maintainers.  (A `clone` or `web` tag is asked
\* for only when there is a URL to list.)
C31_AnnouncementTags ==
    \A i \in 1..Len(repo_built) :
        LET a == repo_built[i].announcement
            event == repo_built[i].event
            n == Len(a.maintainers)
            k == Len(event.tags) - n
        IN  /\ event.kind = KIND_GIT_REPO_ANNOUNCEMENT
            /\ Cardinality(SignerTags(event.tags)) = n
            /\ k >= 0
            /\ SubSeq(event.tags, 1, k) = LeadingTags(a)
            /\ \A j \in 1..n : event.tags[k + j][1] = "p"

\* C32: identifier invariant.  Every announcement handed to
\* build_announcement_event has an identifier made only of lowercase ASCII
\* letters, digits, `-` and `_`, and `init` returns an error, without
\* building or publishing anything, for any other identifier.
C32_IdentifierInvariant ==
    /\ \A i \in 1..Len(repo_built) :
          \A j \in 1..Len(repo_built[i].announcement.identifier) :
              repo_built[i].announcement.identifier[j] \in IdentifierChars
    /\ (Returns("init")
        /\ \E j \in 1..Len(repo_call.identifier) : repo_call.identifier[j] \notin IdentifierChars)
       => ~repo_ret.ok /\ repo_built = << >>

\* C33: sanitize_identifier maps each character of the directory name on
\* its own: an ASCII letter to its lowercase, a digit, `-` or `_` to
\* itself, any other character to `-`.  The identifier detect_from_git
\* returns has as many characters as the name, all of them in [a-z0-9_-],
\* is left as it is by sanitizing it again, and is "my-repo--" for the
\* directory "My Repo!!".
C33_SanitizeIdentifier ==
    (Returns("detect_from_git") /\ repo_ret.ok) =>
        LET name == repo_ret.val.name
            identifier == repo_ret.val.identifier
        IN  /\ name = IF repo_call.repo_path[1].dir = None THEN Unnamed
                      ELSE repo_call.repo_path[1].dir[1]
            /\ Len(identifier) = Len(name)
            /\ \A i \in 1..Len(name) :
                  /\ name[i] \in AsciiUpper =>
                        /\ identifier[i] \in AsciiLower
                        /\ <<name[i], identifier[i]>> \in {<<"A", "a">>, <<"M", "m">>, <<"R", "r">>}
                  /\ name[i] \in AsciiLower \cup AsciiDigit \cup {"-", "_"} =>
                        identifier[i] = name[i]
                  /\ name[i] \notin AsciiUpper \cup AsciiLower \cup AsciiDigit \cup {"-", "_"} =>
                        identifier[i] = "-"
                  /\ identifier[i] \in IdentifierChars
            /\ sanitize_identifier(identifier) = identifier
            /\ name = MyRepo => identifier = <<"m", "y", "-", "r", "e", "p", "o", "-", "-">>

\* detect_from_git has returned for the directory "My Repo!!"
C33_Witness ==
    /\ Returns("detect_from_git")
    /\ repo_ret.ok
    /\ repo_call.repo_path[1].dir = Some(MyRepo)
    /\ repo_ret.val.identifier = <<"m", "y", "-", "r", "e", "p", "o", "-", "-">>

\* C34: for a repository with at least one commit detect_from_git sets
\* root_commit to the oldest commit reachable from HEAD; with two commits
\* or more root_commit is not the HEAD commit.
C34_RootCommitIsOldest ==
    (Returns("detect_from_git") /\ repo_call.repo_path # None
     /\ repo_call.repo_path[1].commits >= 1) =>
        /\ repo_ret.ok
        /\ repo_ret.val.root_commit = CommitId(1)
        /\ repo_call.repo_path[1].commits >= 2 =>
              repo_ret.val.root_commit # CommitId(repo_call.repo_path[1].commits)

\* C35: generate_patches(repo, Some("HEAD~N"), None) on a linear history of
\* M >= 1 commits returns the patches of the last N commits, oldest first,
\* when N < M, and fails with "Not enough commits", returning no patch,
\* when N >= M.
C35_PatchesSinceHeadN ==
    \A M \in 1..MaxCommits, N \in 0..(MaxCommits + 1) :
        (Returns("generate_patches")
         /\ repo_call.repo_path # None
         /\ repo_call.repo_path[1].commits = M
         /\ repo_call.since_commit = Some(<<"HEAD", ToString(N)>>)
         /\ repo_call.count = None) =>
            IF N < M
            THEN /\ repo_ret.ok
                 /\ Len(repo_ret.val) = N
                 /\ \A i \in 1..N : repo_ret.val[i] = PatchOf(CommitId(M - N + i))
            ELSE /\ ~repo_ret.ok
                 /\ repo_ret.val = "Not enough commits for HEAD~" \o ToString(N)

\* HEAD~2 on a history of three commits has returned the patches of the
\* second and third commit
C35_Witness ==
    /\ Returns("generate_patches")
    /\ repo_call.repo_path = Some([dir |-> None, commits |-> 3, origin |-> None])
    /\ repo_call.since_commit = Some(<<"HEAD", "2">>)
    /\ repo_call.count = None
    /\ repo_ret = Ok(<<PatchOf("c2"), PatchOf("c3")>>)

(***************************************************************************)
(* The assembler's update summary read by the aggregator.                  *)
(***************************************************************************)
\* C36: assembler and aggregator agree on the reply reference.  The update
\* summary create_pull_request_event returns for reply_to = the id of a
\* creation, with a timestamp later than the creation's, folded after that
\* creation, is recognised by find_reply_to as replying to it: the record
\* comes out Updated with the update's description.
C36_ReplyRecognised ==
    (apc = "returned" /\ call.reply_to = Some(EvP1.id) /\ call.now > EvP1.created_at) =>
        LET update == built[Len(built)]
            folded == FoldMap(<<EvP1, update>>)
        IN  /\ update.kind = KIND_PULL_REQUEST_UPDATE
            /\ find_reply_to(update) = Some(EvP1.id)
            /\ folded[EvP1.id].status = "Updated"
            /\ folded[EvP1.id].description = call.description
            /\ folded[EvP1.id].updated_at = Some(call.now)

(***************************************************************************)
(* Records of the fold.                                                    *)
(***************************************************************************)
\* C37: in the map after every step of the fold loop and in every list
\* returned, a record is Updated exactly when its updated_at is set, and an
\* updated_at that is set is strictly greater than the record's created_at.
C37_UpdatedIffUpdatedAt ==
    \A r \in Values(prs) \cup Returned :
        /\ r.status = "Updated" <=> r.updated_at # None
        /\ r.updated_at # None => r.updated_at[1] > r.created_at

\* a call has returned an updated record next to one that is still open
C37_Witness ==
    /\ pc = "done"
    /\ \E r \in Returned : /\ r.status = "Updated"
                           /\ r.updated_at = Some(3)
                           /\ r.created_at = 1
    /\ \E r \in Returned : r.status = "Open" /\ r.updated_at = None

\* C38: applying an update changes only the description, updated_at and
\* status of the one record it targets.  A loop iteration on an update
\* leaves the keys of the map as they were, changes at most one record,
\* which the update replies to, and no record's id, title, author,
\* created_at, patches_count or root_commit; these stay those of the
\* record's creation message.
C38_UpdateFrame ==
    [][ (Folding /\ IsUpdate(events[pos])) =>
            /\ DOMAIN prs' = DOMAIN prs
            /\ Cardinality({id \in DOMAIN prs : prs'[id] # prs[id]}) <= 1
            /\ \A id \in DOMAIN prs :
                  /\ prs'[id] # prs[id] => RepliesTo(events[pos], id)
                  /\ prs'[id].id = prs[id].id
                  /\ prs'[id].title = prs[id].title
                  /\ prs'[id].author = prs[id].author
                  /\ prs'[id].created_at = prs[id].created_at
                  /\ prs'[id].patches_count = prs[id].patches_count
                  /\ prs'[id].root_commit = prs[id].root_commit
                  /\ \E i \in 1..(pos - 1) :
                        LET creation == events[i]
                            first == event_to_pull_request(creation).val
                        IN  /\ IsCreation(creation)
                            /\ creation.id = id
                            /\ prs'[id].id = creation.id
                            /\ prs'[id].author = creation.pubkey
                            /\ prs'[id].created_at = creation.created_at
                            /\ prs'[id].title = first.title
                            /\ prs'[id].patches_count = first.patches_count
                            /\ prs'[id].root_commit = first.root_commit
      ]_vars

\* the loop has just applied to the first of two records an update that
\* carries no subject tag; the record keeps its title
C38_Witness ==
    /\ pc = "fold"
    /\ pos = 4
    /\ events = <<EvP1, EvP2, EvU2>>
    /\ prs["id1"].status = "Updated"
    /\ prs["id1"].description = "later"
    /\ prs["id1"].title = "First PR"
    /\ prs["id2"].status = "Open"

(***************************************************************************)
(* Logging in again.                                                       *)
(***************************************************************************)
\* C39: re-login re-keys the identity.  When a login of an identity that is
\* already stored succeeds under password P2, the vault it leaves opens
\* for get_active_keys(P2), which returns the key logged in, and for no
\* other password, whatever password sealed the entry before; the entry
\* sealed before is gone.
C39_ReloginRekeys ==
    [][ ( /\ vault_call'.op = "login"
          /\ vault_ret'.ok
          /\ EntriesOf(LoadStorage(vault_file).accounts, vault_ret'.val) # {} )
        => \E K \in SecretKeys :
              /\ vault_call'.input \in {"nsec1" \o K, "hex" \o K}
              /\ get_active_keys(vault_file', vault_call'.password)
                    = Ok([secret_key |-> K, public_key |-> "pk-" \o K])
              /\ \A P1 \in Passwords \ {vault_call'.password} :
                    get_active_keys(vault_file', P1)
                        = Err("Failed to decrypt key. Wrong password?")
              /\ \A i \in EntriesOf(LoadStorage(vault_file').accounts, vault_ret'.val) :
                    LoadStorage(vault_file').accounts[i].encrypted_nsec.key
                        = derive_key(vault_call'.password)
      ]_vars

\* the identity stored first of two has just been logged in again, under
\* pw, while the identity stored after it is sealed under pw2
C39_Witness ==
    /\ vault_call.op = "login"
    /\ vault_ret.ok
    /\ vault_call.password = "pw"
    /\ ~LoadFails(vault_file)
    /\ Len(Stored) = 2
    /\ Stored[1].npub = vault_ret.val
    /\ Stored[1].encrypted_nsec.key = derive_key("pw")
    /\ Stored[1].nonce = 2
    /\ Stored[2].encrypted_nsec.key = derive_key("pw2")

====
